---- MODULE Spec2Model ----
(***************************************************************************)
(* A model of the backfill services of capstats:                           *)
(*   src/src/services/completeDataBackfillService.ts  ("complete" variant) *)
(*   src/src/services/dataBackfillService.ts          ("data" variant)     *)
(* Part 1 models the stage orchestrator of one service instance: the start *)
(* calls, the isRunning guard, stopBackfill, the stages with their         *)
(* try/catch wrappers, the Progress record and the final report.           *)
(* Part 2 models the upsert executor on the per-entity tables.             *)
(***************************************************************************)
EXTENDS Integers, Sequences, FiniteSets, TLC

\* ------------------------------------------------------------------------
\* Bounds of the model
\* ------------------------------------------------------------------------
MaxCalls == 2      \* start calls made on the instance
MaxSeasons == 1    \* seasons requested, summed over the start calls
MaxFaults == 1     \* upstream/store failures injected, summed over the runs
MaxOps == 3        \* insert handler calls made on the store
MaxGames == 2      \* games served upstream
MaxSeasonOps == 4  \* stage steps made after the games stage of a first run
MaxStageOps == 3   \* whole stages run after the teams stage
MaxScenarioOps == 3  \* steps made on the store of the fallback scenarios
MaxLen == 3        \* characters of an upstream time field
MaxParseOps == 1   \* rows mapped from upstream time fields
MaxBatch == 2      \* players of a batch of season statistics
MaxDbOps == 2      \* calls made on the database service
MaxLoopGames == 3  \* games of the per-game loop of a stage
MaxLoops == 1      \* per-game loops run
MaxHistoricalSeasons == 3  \* seasons from NHL_SEASONS_START to the current year
MaxHistoricalRuns == 1     \* calls of backfillHistoricalData
MaxPlays == 2      \* plays of the play-by-play of a game
MaxShotOps == 3    \* play-by-play payloads processed
MaxScriptSeasons == 2  \* seasons the historical backfill script goes through
MaxClock == 3      \* minutes the clock of the request cache runs
MaxRequests == 2   \* calls of cachedRequest that can be in flight together
MaxIntegrationClock == 7  \* minutes the clock of the integration service runs
MaxIntegrations == 2      \* calls of fetchAndIntegrateCapitalsData

\* ------------------------------------------------------------------------
\* Names
\* ------------------------------------------------------------------------
VariantComplete == "completeDataBackfillService"
VariantData == "dataBackfillService"
Variants == {VariantComplete, VariantData}

NoSeason == "-"
AllSeasons == <<"20232024", "20222023", "20212022", "20202021">>

Min(a, b) == IF a <= b THEN a ELSE b

\* The season lists a caller may pass: the first n seasons, n = 0 is the
\* (unvalidated) empty list.
SeasonLists == { SubSeq(AllSeasons, 1, n) : n \in 0..Min(MaxSeasons, Len(AllSeasons)) }

NineTables == {"teams", "players", "games", "player_game_stats", "player_season_stats",
               "team_game_stats", "team_season_stats", "goalie_game_stats", "shots"}

TestTables == {"teams", "players", "games", "team_game_stats"}

VARIABLES
  variant,     \* which service file the instance was built from
  isRunning,   \* this.isRunning
  progress,    \* this.progress
  calls,       \* the start calls made on the instance, by call number
  faultsLeft,  \* how many more upstream/store failures the environment injects
  failures     \* history: the <<call, stage, season>> in which a fetch or a write failed

orchVars == <<variant, isRunning, progress, calls, faultsLeft, failures>>

VARIABLES
  store,    \* the tables: each a sequence of rows, a row a record of its columns
  lastOp,   \* history: the last insert handler call, and the store after the
            \* first call of the run of identical calls it belongs to
  opsLeft   \* insert handler calls still to be made
storeVars == <<store, lastOp, opsLeft>>

VARIABLES
  checkedOut,  \* connections of the pool acquired and not released
  events,      \* history: what the last operation did, in order
  script,      \* the historical backfill script: its position and its callbacks
  api          \* the API services: the clock, the request cache, the requests
               \* in flight, and the last update of the integration service
svcVars == <<checkedOut, events, script, api>>
vars == <<orchVars, storeVars, svcVars>>

\* ------------------------------------------------------------------------
\* The constructor
\* ------------------------------------------------------------------------
InitialProgress ==
  [currentStep |-> "Ready", progress |-> 0, totalSteps |-> 0,
   errors |-> <<>>, completed |-> <<>>, tablesPopulated |-> {}]

\* A report: the tables whose row count it lists, the errors it lists, and (history)
\* the Progress error list as it was when the report was written.
NoReport == [generated |-> FALSE, tables |-> {}, errors |-> <<>>, accumulated |-> <<>>]

IdleCall ==
  [status |-> "idle", kind |-> "none", seasons |-> <<>>,
   pc |-> 0, phase |-> "ready", trace |-> <<>>, stopAt |-> -1, report |-> NoReport]

\* ------------------------------------------------------------------------
\* The plan of a run: the stages in the order the start method awaits them
\* ------------------------------------------------------------------------
SeasonLoop(stage, seasons) == [i \in 1..Len(seasons) |-> <<stage, seasons[i]>>]

RECURSIVE SeasonPairLoop(_, _, _)
SeasonPairLoop(first, second, seasons) ==
  IF seasons = <<>> THEN <<>>
  ELSE <<<<first, Head(seasons)>>, <<second, Head(seasons)>>>>
       \o SeasonPairLoop(first, second, Tail(seasons))

\* PlanComplete with the games loop moved in front of the players loop.
PlanCompleteGamesFirst(seasons) ==
  <<<<"teams", NoSeason>>>>
  \o SeasonLoop("games", seasons)
  \o SeasonLoop("players", seasons)
  \o SeasonLoop("playerGameStats", seasons)
  \o SeasonLoop("teamGameStats", seasons)
  \o SeasonLoop("goalieGameStats", seasons)
  \o SeasonLoop("seasonStats", seasons)
  \o SeasonLoop("shots", seasons)
  \o SeasonLoop("advancedStats", seasons)

PlanComplete(seasons) ==
  <<<<"teams", NoSeason>>>>
  \o SeasonLoop("players", seasons)
  \o SeasonLoop("games", seasons)
  \o SeasonLoop("playerGameStats", seasons)
  \o SeasonLoop("teamGameStats", seasons)
  \o SeasonLoop("goalieGameStats", seasons)
  \o SeasonLoop("seasonStats", seasons)
  \o SeasonLoop("shots", seasons)
  \o SeasonLoop("advancedStats", seasons)

\* PlanData with the season aggregates taken before the team-game-stats loop.
PlanDataAggregatesEarly(seasons) ==
  <<<<"teams", NoSeason>>>>
  \o SeasonLoop("players", seasons)
  \o SeasonLoop("games", seasons)
  \o SeasonLoop("playerGameStats", seasons)
  \o SeasonLoop("goalieGameStats", seasons)
  \o SeasonPairLoop("playerSeasonStats", "teamSeasonStats", seasons)
  \o SeasonLoop("teamGameStats", seasons)
  \o SeasonLoop("shots", seasons)
  \o SeasonLoop("advancedStats", seasons)

PlanData(seasons) ==
  <<<<"teams", NoSeason>>>>
  \o SeasonLoop("players", seasons)
  \o SeasonLoop("games", seasons)
  \o SeasonLoop("playerGameStats", seasons)
  \o SeasonLoop("goalieGameStats", seasons)
  \o SeasonLoop("teamGameStats", seasons)
  \o SeasonLoop("shots", seasons)
  \o SeasonPairLoop("playerSeasonStats", "teamSeasonStats", seasons)
  \o SeasonLoop("advancedStats", seasons)

PlanTest ==
  <<<<"fallbackTeams", NoSeason>>, <<"fallbackPlayers", NoSeason>>,
    <<"sampleGames", NoSeason>>, <<"sampleTeamStats", NoSeason>>>>

Plan(v, kind, seasons) ==
  IF kind = "test" THEN PlanTest
  ELSE IF v = VariantComplete THEN PlanComplete(seasons) ELSE PlanData(seasons)

calculateTotalSteps(v, seasons, includePlayoffs) ==
  IF v = VariantComplete
  THEN 1 + Len(seasons) + Len(seasons) + Len(seasons) * 3
         + Len(seasons) + Len(seasons) + Len(seasons)
  ELSE 1 + Len(seasons) + Len(seasons) * (IF includePlayoffs THEN 2 ELSE 1)
         + Len(seasons) * 5 + Len(seasons) * 2 + Len(seasons)

\* ------------------------------------------------------------------------
\* The stages: what can happen inside one, and what its try/catch does
\* ------------------------------------------------------------------------
\* "ok"       every fetch and write of the stage succeeded
\* "silent"   a fetch or write failed inside an inner try/catch or behind an
\*            `if (response.ok)`: the stage goes on and reports nothing
\* "fallback" the live team fetch failed and the hardcoded teams were inserted
\* "throw"    an exception reached the stage's own try/catch (or, where the
\*            stage has none, left the stage)
StageOutcomes(v, stage) ==
  IF v = VariantComplete
  THEN CASE stage = "teams" -> {"ok", "fallback", "throw"}
         [] stage = "players" -> {"ok", "silent", "throw"}
         [] stage = "games" -> {"ok", "silent"}
         [] stage \in {"playerGameStats", "teamGameStats", "goalieGameStats", "shots"}
              -> {"ok", "silent", "throw"}
         [] stage = "seasonStats" -> {"ok", "throw"}
         [] stage = "advancedStats" -> {"ok", "silent"}
         [] OTHER -> {"ok", "throw"}
  ELSE CASE stage = "teams" -> {"ok", "throw"}
         [] stage \in {"playerSeasonStats", "teamSeasonStats"} -> {"ok", "throw"}
         [] OTHER -> {"ok", "silent", "throw"}

\* Whether a "throw" of the stage leaves the stage (no catch, or a catch that
\* rethrows) and so reaches the start method's catch block.
Rethrown(v, kind, stage) ==
  \/ kind = "test"
  \/ v = VariantComplete /\ stage = "teams"
  \/ v = VariantData /\ stage \in {"teams", "players", "games", "playerGameStats"}

TableOf(stage) ==
  CASE stage = "teams" -> {"teams"}
    [] stage = "players" -> {"players"}
    [] stage = "games" -> {"games"}
    [] stage = "playerGameStats" -> {"player_game_stats"}
    [] stage = "goalieGameStats" -> {"goalie_game_stats"}
    [] stage = "teamGameStats" -> {"team_game_stats"}
    [] stage = "shots" -> {"shots"}
    [] stage = "playerSeasonStats" -> {"player_season_stats"}
    [] stage = "teamSeasonStats" -> {"team_season_stats"}
    [] OTHER -> {}

\* The season an error message of the stage names ("-" when it names none).
ErrorSeason(v, stage, season) ==
  IF v = VariantData /\ stage \in {"playerSeasonStats", "teamSeasonStats"}
  THEN NoSeason ELSE season

updateProgress(p, stage, season) ==
  [p EXCEPT !.currentStep = <<stage, season>>, !.progress = @ + 1]

\* What the body of a stage and its catch block do to the Progress record.
StageEffect(v, kind, stage, season, outcome, p) ==
  IF kind = "test" THEN p
  ELSE IF outcome = "throw"
  THEN IF v = VariantComplete /\ stage = "teams"
       THEN p
       ELSE [p EXCEPT !.errors = Append(@, <<stage, ErrorSeason(v, stage, season)>>)]
  ELSE IF v = VariantComplete
  THEN [p EXCEPT !.completed =
          Append(@, <<IF outcome = "fallback" THEN "teamsFallback" ELSE stage, season>>)]
  ELSE [p EXCEPT !.completed = Append(@, <<stage, season>>),
                 !.tablesPopulated = @ \cup TableOf(stage)]

\* The catch block of the start method.
StartCatch(v, kind, p) ==
  IF kind = "test" THEN p
  ELSE [p EXCEPT !.errors = Append(@, <<"backfill", NoSeason>>)]

\* The final report: the tables whose row count it lists and the errors it lists.
generateFinalReport(v, kind, p) ==
  IF kind = "test"
  THEN [generated |-> TRUE, tables |-> TestTables, errors |-> <<>>,
        accumulated |-> p.errors]
  ELSE IF v = VariantComplete
  THEN [generated |-> TRUE, tables |-> NineTables,
        errors |-> SubSeq(p.errors, 1, Min(5, Len(p.errors))),
        accumulated |-> p.errors]
  ELSE [generated |-> TRUE, tables |-> p.tablesPopulated, errors |-> p.errors,
        accumulated |-> p.errors]

\* ------------------------------------------------------------------------
\* The operations of the service
\* ------------------------------------------------------------------------
Active(c) == calls[c].status = "active"
Settled(c) == calls[c].status \in {"resolved", "rejected"}
CallIds == 1..MaxCalls
NextCall(c) == calls[c].status = "idle" /\ \A d \in CallIds : d < c => calls[d].status # "idle"
StagesBegun(c) == Len(calls[c].trace) + (IF calls[c].phase = "inStage" THEN 1 ELSE 0)
ThePlan(c) == Plan(variant, calls[c].kind, calls[c].seasons)

RECURSIVE SeasonsRequested(_)
SeasonsRequested(n) ==
  IF n = 0 THEN 0
  ELSE (IF calls[n].kind = "complete" THEN Len(calls[n].seasons) ELSE 0)
       + SeasonsRequested(n - 1)

\* The guard and the first lines of a start method.
Start(c, kind, seasons, totalSteps) ==
  /\ NextCall(c)
  /\ kind = "complete" => SeasonsRequested(MaxCalls) + Len(seasons) <= MaxSeasons
  /\ IF isRunning
     THEN /\ calls' = [calls EXCEPT ![c].status = "conflict", ![c].kind = kind]
          /\ UNCHANGED <<isRunning, progress>>
     ELSE /\ isRunning' = TRUE
          /\ progress' = [progress EXCEPT !.totalSteps = totalSteps]
          /\ calls' = [calls EXCEPT ![c] =
               [IdleCall EXCEPT !.status = "active", !.kind = kind, !.seasons = seasons,
                                !.pc = 1]]
  /\ UNCHANGED <<variant, faultsLeft, failures, storeVars, svcVars>>

startCompleteBackfill(c, seasons, includePlayoffs) ==
  Start(c, "complete", seasons, calculateTotalSteps(variant, seasons, includePlayoffs))

startTestBackfill(c, seasons) ==
  /\ variant = VariantComplete
  /\ Start(c, "test", seasons, 4)

stopBackfill ==
  /\ isRunning
  /\ isRunning' = FALSE
  /\ progress' = [progress EXCEPT !.currentStep = <<"Stopped by user", NoSeason>>]
  /\ calls' = [c \in CallIds |->
       IF Active(c) /\ calls[c].stopAt = -1
       THEN [calls[c] EXCEPT !.stopAt = StagesBegun(c)] ELSE calls[c]]
  /\ UNCHANGED <<variant, faultsLeft, failures, storeVars, svcVars>>

\* The first line of a stage: updateProgress(label).
StageBegin(c) ==
  /\ Active(c) /\ calls[c].phase = "ready" /\ calls[c].pc <= Len(ThePlan(c))
  /\ LET st == ThePlan(c)[calls[c].pc] IN
       /\ progress' = IF calls[c].kind = "test" THEN progress
                      ELSE updateProgress(progress, st[1], st[2])
       /\ calls' = [calls EXCEPT ![c].phase = "inStage"]
  /\ UNCHANGED <<variant, isRunning, faultsLeft, failures, storeVars, svcVars>>

\* The rest of the stage, up to the point where the start method resumes (or
\* where the exception has run through its catch and finally blocks).
StageEnd(c, outcome) ==
  /\ Active(c) /\ calls[c].phase = "inStage"
  /\ LET st == ThePlan(c)[calls[c].pc]
         kind == calls[c].kind
         p1 == StageEffect(variant, kind, st[1], st[2], outcome, progress)
         escapes == outcome = "throw" /\ Rethrown(variant, kind, st[1])
     IN
       /\ outcome \in StageOutcomes(variant, st[1])
       /\ outcome # "ok" => faultsLeft > 0
       /\ faultsLeft' = IF outcome = "ok" THEN faultsLeft ELSE faultsLeft - 1
       /\ failures' = IF outcome = "ok" THEN failures
                      ELSE failures \cup {<<c, st[1], st[2]>>}
       /\ progress' = IF escapes THEN StartCatch(variant, kind, p1) ELSE p1
       /\ isRunning' = IF escapes THEN FALSE ELSE isRunning
       /\ calls' = [calls EXCEPT
            ![c].trace = Append(@, <<st[1], st[2], outcome>>),
            ![c].phase = "ready",
            ![c].pc = @ + 1,
            ![c].status = IF escapes THEN "rejected" ELSE @]
  /\ UNCHANGED <<variant, storeVars, svcVars>>

\* After the last stage: the report.
GenerateReport(c) ==
  /\ Active(c) /\ calls[c].phase = "ready" /\ calls[c].pc > Len(ThePlan(c))
  /\ progress' = IF variant = VariantData
                 THEN [progress EXCEPT !.currentStep = <<"Completed Successfully", NoSeason>>]
                 ELSE progress
  /\ calls' = [calls EXCEPT
       ![c].report = generateFinalReport(variant, calls[c].kind, progress),
       ![c].phase = "reported"]
  /\ UNCHANGED <<variant, isRunning, faultsLeft, failures, storeVars, svcVars>>

\* The finally block of a start method that ran to its end.
Settle(c) ==
  /\ Active(c) /\ calls[c].phase = "reported"
  /\ isRunning' = FALSE
  /\ calls' = [calls EXCEPT ![c].status = "resolved"]
  /\ UNCHANGED <<variant, progress, faultsLeft, failures, storeVars, svcVars>>

\* ------------------------------------------------------------------------
\* Part 2: the per-entity tables and the insert handlers
\* ------------------------------------------------------------------------
\* A JavaScript value that may be undefined/null: None, or Some(v).
None == <<>>
Some(v) == <<v>>
\* x || d
OrElse(x, d) == IF x = None THEN d ELSE x[1]

GameIds == 1..MaxGames
TeamIds == {1, 2}                  \* home and away team of a game
PlayerIds == {1, 2}                \* a skater or goalie of each
Revisions == {"first", "revised"}  \* an upstream payload as first served, and as revised
\* The schedule of a season serves the games of that season: games 1 and 2
\* are of the first season, later ones of the second.
SeasonOf(g) == IF g \in {1, 2} THEN AllSeasons[1] ELSE AllSeasons[2]

EmptyStore == [teams |-> <<>>, players |-> <<>>, games |-> <<>>,
               player_game_stats |-> <<>>, goalie_game_stats |-> <<>>,
               team_game_stats |-> <<>>,
               player_season_stats |-> <<>>, team_season_stats |-> <<>>,
               shots |-> <<>>]
NoOp == [name |-> "none", args |-> <<>>, repeats |-> 0, afterFirst |-> EmptyStore]

\* ---- SQL statements ----
Matches(row, key, new) == \A k \in key : row[k] = new[k]
\* SELECT COUNT(*) FROM table WHERE key = ...
Count(table, key, new) == Cardinality({ i \in 1..Len(table) : Matches(table[i], key, new) })
\* INSERT INTO table VALUES (...)
InsertRow(table, new) == Append(table, new)
\* DO UPDATE SET c = EXCLUDED.c for the columns listed
Overwrite(row, cols, new) == [k \in DOMAIN row |-> IF k \in cols THEN new[k] ELSE row[k]]
\* Upsert without the conflict arbitration: the row is always inserted.
UpsertAlwaysInserts(table, key, cols, new) == InsertRow(table, new)
\* INSERT ... ON CONFLICT (key) DO UPDATE SET cols
Upsert(table, key, cols, new) ==
  IF Count(table, key, new) = 0 THEN InsertRow(table, new)
  ELSE SubSeq([i \in 1..Len(table) |->
                 IF Matches(table[i], key, new) THEN Overwrite(table[i], cols, new)
                 ELSE table[i]],
              1, Len(table))
\* InsertIfAbsent without the existence query.
InsertUnchecked(table, key, new) == InsertRow(table, new)
\* existsQuery, then INSERT only when the count is 0
InsertIfAbsent(table, key, new) ==
  IF Count(table, key, new) = 0 THEN InsertRow(table, new) ELSE table

\* "MM:SS" is held as its parts after split(':')
parseTimeToSeconds(timeString) ==
  IF timeString = None THEN 0
  ELSE IF Len(timeString[1]) = 2 THEN timeString[1][1] * 60 + timeString[1][2]
  ELSE 0

getTeamIdFromAbbrev(abbrev) ==
  CASE abbrev = "NJD" -> 1
    [] abbrev = "NYI" -> 2
    [] abbrev = "NYR" -> 3
    [] abbrev = "PHI" -> 4
    [] OTHER -> 999

\* A JavaScript number n is held as the string of its digits where the code
\* compares it to both numbers and strings.
mapGameState(gameState) ==
  IF gameState = Some("3") \/ gameState = Some("Final") THEN "Final"
  ELSE IF gameState = Some("1") THEN "Scheduled"
  ELSE IF gameState = Some("2") THEN "Live"
  ELSE "Unknown"

\* ---- upstream payloads ----
TeamAbbrevs == <<"NJD", "NYI", "NYR", "PHI">>
Standing(t, rev) ==
  [teamAbbrev |-> IF t <= Len(TeamAbbrevs) THEN Some(TeamAbbrevs[t]) ELSE None,
   teamName |-> IF rev = "first" THEN None ELSE Some("Devils"),
   placeName |-> IF rev = "first" THEN Some("New Jersey") ELSE Some("Newark"),
   divisionName |-> IF rev = "first" THEN Some("Metropolitan") ELSE Some("Atlantic"),
   conferenceName |-> Some("Eastern")]
Team(t, rev) ==
  [id |-> t,
   fullName |-> IF rev = "first" THEN None ELSE Some("New Jersey Devils"),
   teamName |-> Some("Devils"),
   abbreviation |-> Some("NJ"),
   locationName |-> IF rev = "first" THEN None ELSE Some("Newark"),
   city |-> Some("New Jersey"),
   division |-> Some("Metropolitan"),
   conference |-> Some("Eastern")]
Player(p, rev) ==
  [playerId |-> p,
   teamId |-> IF rev = "first" THEN None ELSE Some(2),
   firstName |-> IF rev = "first" THEN None ELSE Some("Alex"),
   lastName |-> Some("Ovechkin"),
   position |-> IF rev = "first" THEN None ELSE Some("L"),
   sweaterNumber |-> IF rev = "first" THEN None ELSE Some(8)]
PlayerDetail(p, rev) ==
  [currentTeamId |-> Some(1),
   firstName |-> IF rev = "first" THEN Some("Alexander") ELSE None,
   lastName |-> None,
   position |-> IF rev = "first" THEN Some("R") ELSE None,
   sweaterNumber |-> None,
   birthDate |-> IF rev = "first" THEN None ELSE Some("1985-09-17")]
Game(g, rev) ==
  [id |-> g,
   gameType |-> IF rev = "first" THEN None ELSE Some("03"),
   gameDate |-> IF rev = "first" THEN Some("2023-10-13") ELSE Some("2023-10-14"),
   homeTeam |-> [id |-> 1, score |-> IF rev = "first" THEN None
                                     ELSE IF g = 2 THEN Some(2) ELSE Some(3)],
   awayTeam |-> [id |-> 2, score |-> IF rev = "first" THEN None
                                     ELSE IF g = 2 THEN Some(3) ELSE Some(2)],
   period |-> IF rev = "first" THEN None ELSE Some(4),
   gameState |-> IF rev = "first" THEN None
                 ELSE IF g = 1 THEN Some("3") ELSE Some("Final"),
   gameScheduleState |-> Some("OK"),
   venue |-> IF rev = "first" THEN None ELSE Some("Capital One Arena")]
SkaterStats(rev) ==
  IF rev = "first"
  THEN [goals |-> Some(1), assists |-> None, plusMinus |-> None, penaltyMinutes |-> Some(2),
        shots |-> Some(3), hits |-> None, blockedShots |-> None,
        timeOnIce |-> Some(<<15, 30>>), powerPlayTimeOnIce |-> None, corsiFor |-> None]
  ELSE [goals |-> Some(2), assists |-> Some(1), plusMinus |-> Some(1), penaltyMinutes |-> Some(2),
        shots |-> Some(5), hits |-> Some(1), blockedShots |-> Some(1),
        timeOnIce |-> Some(<<18, 5>>), powerPlayTimeOnIce |-> Some(<<2, 10>>),
        corsiFor |-> Some(12)]
GoalieStats(rev) ==
  IF rev = "first"
  THEN [shotsAgainst |-> Some(30), goalsAgainst |-> None, timeOnIce |-> Some(<<60, 0>>),
        decision |-> None]
  ELSE [shotsAgainst |-> Some(31), goalsAgainst |-> Some(2), timeOnIce |-> Some(<<58, 45>>),
        decision |-> Some("W")]
\* the team object of a box score (complete variant) ...
TeamData(rev) ==
  IF rev = "first" THEN [score |-> None, sog |-> Some(28), hits |-> None]
  ELSE [score |-> Some(3), sog |-> Some(31), hits |-> Some(20)]
\* ... and its teamStats member (data variant)
TeamStats(rev) ==
  IF rev = "first"
  THEN [goals |-> None, assists |-> None, shots |-> Some(28), hits |-> None,
        blockedShots |-> None, penaltyMinutes |-> None]
  ELSE [goals |-> Some(3), assists |-> Some(5), shots |-> Some(31), hits |-> Some(20),
        blockedShots |-> Some(11), penaltyMinutes |-> Some(4)]

\* ---- the rows the handlers write (the VALUES lists) ----
TeamValues(standing) ==
  [id |-> getTeamIdFromAbbrev(OrElse(standing.teamAbbrev, "UNK")),
   name |-> OrElse(standing.teamName, "Unknown"),
   abbreviation |-> OrElse(standing.teamAbbrev, "UNK"),
   city |-> OrElse(standing.placeName, "Unknown"),
   division |-> OrElse(standing.divisionName, "Unknown"),
   conference |-> OrElse(standing.conferenceName, "Unknown")]
CompleteTeamValues(standing, team) ==
  [id |-> team.id,
   name |-> OrElse(team.fullName, OrElse(team.teamName, OrElse(standing.teamName, "NULL"))),
   abbreviation |-> OrElse(standing.teamAbbrev, OrElse(team.abbreviation, "NULL")),
   city |-> OrElse(team.locationName, OrElse(team.city, "NULL")),
   division |-> OrElse(standing.divisionName, OrElse(team.division, "NULL")),
   conference |-> OrElse(standing.conferenceName, OrElse(team.conference, "NULL"))]
PlayerValues(player) ==
  [id |-> player.playerId,
   team_id |-> OrElse(player.teamId, 1),
   first_name |-> OrElse(player.firstName, "Unknown"),
   last_name |-> OrElse(player.lastName, "Unknown"),
   position |-> OrElse(player.position, "F"),
   jersey_number |-> player.sweaterNumber]
\* of the six insert-only biography columns birth_date is kept; the other five
\* are written the same way
CompletePlayerValues(player, playerDetail) ==
  [id |-> player.playerId,
   team_id |-> OrElse(player.teamId, OrElse(playerDetail.currentTeamId, 0)),
   first_name |-> OrElse(playerDetail.firstName, OrElse(player.firstName, "Unknown")),
   last_name |-> OrElse(playerDetail.lastName, OrElse(player.lastName, "Unknown")),
   position |-> OrElse(playerDetail.position, OrElse(player.position, "F")),
   jersey_number |-> IF playerDetail.sweaterNumber = None THEN player.sweaterNumber
                     ELSE playerDetail.sweaterNumber,
   birth_date |-> playerDetail.birthDate]
GameValues(game, season) ==
  [id |-> game.id,
   season |-> season,
   game_type |-> OrElse(game.gameType, "02"),
   date_time |-> game.gameDate,
   home_team_id |-> game.homeTeam.id,
   away_team_id |-> game.awayTeam.id,
   home_score |-> OrElse(game.homeTeam.score, 0),
   away_score |-> OrElse(game.awayTeam.score, 0),
   game_state |-> mapGameState(game.gameState),
   venue |-> OrElse(game.venue, "Unknown")]
CompleteGameValues(game, season) ==
  [id |-> game.id,
   season |-> season,
   game_type |-> OrElse(game.gameType, "02"),
   date_time |-> game.gameDate,
   home_team_id |-> game.homeTeam.id,
   away_team_id |-> game.awayTeam.id,
   home_score |-> OrElse(game.homeTeam.score, 0),
   away_score |-> OrElse(game.awayTeam.score, 0),
   period |-> OrElse(game.period, 3),
   game_state |-> OrElse(game.gameState,
                         IF game.gameScheduleState = Some("OK") THEN "Final" ELSE "Scheduled"),
   venue |-> OrElse(game.venue, "Unknown")]
PlayerGameStatValues(gameId, playerId, teamId, stats) ==
  [game_id |-> gameId, player_id |-> playerId, team_id |-> teamId,
   goals |-> OrElse(stats.goals, 0),
   assists |-> OrElse(stats.assists, 0),
   points |-> OrElse(stats.goals, 0) + OrElse(stats.assists, 0),
   plus_minus |-> OrElse(stats.plusMinus, 0),
   penalty_minutes |-> OrElse(stats.penaltyMinutes, 0),
   shots |-> OrElse(stats.shots, 0),
   hits |-> OrElse(stats.hits, 0),
   blocks |-> OrElse(stats.blockedShots, 0),
   time_on_ice_seconds |-> parseTimeToSeconds(stats.timeOnIce)]
\* of the eight advanced columns powerplay_time_seconds and corsi_for are
\* kept; the other six are written and updated the same way
PlayerGameStatsValues(gameId, playerId, teamId, stats) ==
  [game_id |-> gameId, player_id |-> playerId, team_id |-> teamId,
   goals |-> OrElse(stats.goals, 0),
   assists |-> OrElse(stats.assists, 0),
   points |-> OrElse(stats.goals, 0) + OrElse(stats.assists, 0),
   plus_minus |-> OrElse(stats.plusMinus, 0),
   penalty_minutes |-> OrElse(stats.penaltyMinutes, 0),
   shots |-> OrElse(stats.shots, 0),
   hits |-> OrElse(stats.hits, 0),
   blocks |-> OrElse(stats.blockedShots, 0),
   time_on_ice_seconds |-> parseTimeToSeconds(stats.timeOnIce),
   powerplay_time_seconds |-> parseTimeToSeconds(stats.powerPlayTimeOnIce),
   corsi_for |-> OrElse(stats.corsiFor, 0)]
\* saves / shotsAgainst is held as the pair <<saves, shotsAgainst>>
GoalieStatValues(gameId, playerId, teamId, stats) ==
  LET shotsAgainst == OrElse(stats.shotsAgainst, 0)
      goalsAgainst == OrElse(stats.goalsAgainst, 0)
      saves == shotsAgainst - goalsAgainst
  IN [game_id |-> gameId, player_id |-> playerId, team_id |-> teamId,
      shots_against |-> shotsAgainst, saves |-> saves, goals_against |-> goalsAgainst,
      save_percentage |-> IF shotsAgainst > 0 THEN <<saves, shotsAgainst>> ELSE <<0, 1>>,
      time_on_ice_seconds |-> parseTimeToSeconds(stats.timeOnIce),
      shutout |-> goalsAgainst = 0 /\ shotsAgainst > 0]
\* the eight expected-goals and danger-zone columns are written and updated
\* the same way as decision
GoalieGameStatsValues(gameId, playerId, teamId, stats) ==
  LET shotsAgainst == OrElse(stats.shotsAgainst, 0)
      goalsAgainst == OrElse(stats.goalsAgainst, 0)
      saves == shotsAgainst - goalsAgainst
  IN [game_id |-> gameId, player_id |-> playerId, team_id |-> teamId,
      shots_against |-> shotsAgainst, saves |-> saves, goals_against |-> goalsAgainst,
      save_percentage |-> IF shotsAgainst > 0 THEN <<saves, shotsAgainst>> ELSE <<0, 1>>,
      time_on_ice_seconds |-> parseTimeToSeconds(stats.timeOnIce),
      decision |-> stats.decision,
      shutout |-> goalsAgainst = 0 /\ shotsAgainst > 0]
TeamGameStatValues(gameId, teamId, isHome, teamData) ==
  [game_id |-> gameId, team_id |-> teamId, is_home |-> isHome,
   goals |-> OrElse(teamData.score, 0),
   shots |-> OrElse(teamData.sog, 0),
   hits |-> OrElse(teamData.hits, 0)]
\* the twelve special-teams and shot-quality columns are written and updated
\* the same way as penalty_minutes
TeamGameStatsValues(gameId, teamId, isHome, stats) ==
  [game_id |-> gameId, team_id |-> teamId, is_home |-> isHome,
   goals |-> OrElse(stats.goals, 0),
   assists |-> OrElse(stats.assists, 0),
   shots |-> OrElse(stats.shots, 0),
   hits |-> OrElse(stats.hits, 0),
   blocks |-> OrElse(stats.blockedShots, 0),
   penalty_minutes |-> OrElse(stats.penaltyMinutes, 0)]

\* ---- the handlers ----
\* One handler call: the store after it, and the record of the call
\* (repeats counts the identical calls directly before it).
CallStore(name, args, after) ==
  /\ opsLeft > 0
  /\ opsLeft' = opsLeft - 1
  /\ store' = after
  /\ lastOp' = IF lastOp.name = name /\ lastOp.args = args
               THEN [lastOp EXCEPT !.repeats = @ + 1]
               ELSE [name |-> name, args |-> args, repeats |-> 0, afterFirst |-> after]
Call(name, args, after) ==
  /\ CallStore(name, args, after)
  /\ UNCHANGED <<orchVars, svcVars>>

AllColumns(row, key) == (DOMAIN row) \ key

insertTeam(t, rev) ==
  /\ variant = VariantComplete
  /\ Call("insertTeam", <<t, rev>>,
          [store EXCEPT !.teams =
             Upsert(@, {"id"}, {"name", "abbreviation", "division", "conference"},
                    TeamValues(Standing(t, rev)))])
insertCompleteTeamData(t, rev) ==
  /\ variant = VariantData
  /\ Call("insertCompleteTeamData", <<t, rev>>,
          [store EXCEPT !.teams =
             Upsert(@, {"id"}, {"name", "abbreviation", "city", "division", "conference"},
                    CompleteTeamValues(Standing(t, rev), Team(t, rev)))])
insertPlayer(p, rev) ==
  /\ variant = VariantComplete
  /\ Call("insertPlayer", <<p, rev>>,
          [store EXCEPT !.players =
             Upsert(@, {"id"}, {"team_id", "position", "jersey_number"},
                    PlayerValues(Player(p, rev)))])
insertCompletePlayerData(p, rev) ==
  /\ variant = VariantData
  /\ Call("insertCompletePlayerData", <<p, rev>>,
          [store EXCEPT !.players =
             Upsert(@, {"id"}, {"team_id", "position", "jersey_number"},
                    CompletePlayerValues(Player(p, rev), PlayerDetail(p, rev)))])
insertGame(g, rev) ==
  /\ variant = VariantComplete
  /\ Call("insertGame", <<g, rev>>,
          [store EXCEPT !.games =
             Upsert(@, {"id"}, {"home_score", "away_score", "game_state"},
                    GameValues(Game(g, rev), SeasonOf(g)))])
insertCompleteGameData(g, rev) ==
  /\ variant = VariantData
  /\ Call("insertCompleteGameData", <<g, rev>>,
          [store EXCEPT !.games =
             Upsert(@, {"id"},
                    AllColumns(CompleteGameValues(Game(g, rev), SeasonOf(g)), {"id"}),
                    CompleteGameValues(Game(g, rev), SeasonOf(g)))])
insertPlayerGameStat(g, p, rev) ==
  /\ variant = VariantComplete
  /\ Call("insertPlayerGameStat", <<g, p, rev>>,
          [store EXCEPT !.player_game_stats =
             InsertIfAbsent(@, {"game_id", "player_id"},
                            PlayerGameStatValues(g, p, 1, SkaterStats(rev)))])
insertPlayerGameStats(g, p, rev) ==
  /\ variant = VariantData
  /\ Call("insertPlayerGameStats", <<g, p, rev>>,
          [store EXCEPT !.player_game_stats =
             Upsert(@, {"game_id", "player_id"},
                    AllColumns(PlayerGameStatsValues(g, p, 1, SkaterStats(rev)),
                               {"game_id", "player_id"}),
                    PlayerGameStatsValues(g, p, 1, SkaterStats(rev)))])
insertGoalieStat(g, p, rev) ==
  /\ variant = VariantComplete
  /\ Call("insertGoalieStat", <<g, p, rev>>,
          [store EXCEPT !.goalie_game_stats =
             InsertIfAbsent(@, {"game_id", "player_id"},
                            GoalieStatValues(g, p, 1, GoalieStats(rev)))])
insertGoalieGameStats(g, p, rev) ==
  /\ variant = VariantData
  /\ Call("insertGoalieGameStats", <<g, p, rev>>,
          [store EXCEPT !.goalie_game_stats =
             Upsert(@, {"game_id", "player_id"},
                    AllColumns(GoalieGameStatsValues(g, p, 1, GoalieStats(rev)),
                               {"game_id", "player_id"}),
                    GoalieGameStatsValues(g, p, 1, GoalieStats(rev)))])
insertTeamGameStat(g, t, rev) ==
  /\ variant = VariantComplete
  /\ Call("insertTeamGameStat", <<g, t, rev>>,
          [store EXCEPT !.team_game_stats =
             InsertIfAbsent(@, {"game_id", "team_id"},
                            TeamGameStatValues(g, t, t = Game(g, rev).homeTeam.id,
                                               TeamData(rev)))])
insertTeamGameStats(g, t, rev) ==
  /\ variant = VariantData
  /\ Call("insertTeamGameStats", <<g, t, rev>>,
          [store EXCEPT !.team_game_stats =
             Upsert(@, {"game_id", "team_id"},
                    AllColumns(TeamGameStatsValues(g, t, TRUE, TeamStats(rev)),
                               {"game_id", "team_id"}),
                    TeamGameStatsValues(g, t, t = Game(g, rev).homeTeam.id,
                                        TeamStats(rev)))])

InitStore ==
  /\ store = EmptyStore
  /\ lastOp = NoOp
  /\ opsLeft = MaxOps

NextStore ==
  \/ \E t \in TeamIds, rev \in Revisions : insertTeam(t, rev)
  \/ \E t \in TeamIds, rev \in Revisions : insertCompleteTeamData(t, rev)
  \/ \E p \in PlayerIds, rev \in Revisions : insertPlayer(p, rev)
  \/ \E p \in PlayerIds, rev \in Revisions : insertCompletePlayerData(p, rev)
  \/ \E g \in GameIds, rev \in Revisions : insertGame(g, rev)
  \/ \E g \in GameIds, rev \in Revisions : insertCompleteGameData(g, rev)
  \/ \E g \in GameIds, p \in PlayerIds, rev \in Revisions : insertPlayerGameStat(g, p, rev)
  \/ \E g \in GameIds, p \in PlayerIds, rev \in Revisions : insertPlayerGameStats(g, p, rev)
  \/ \E g \in GameIds, p \in PlayerIds, rev \in Revisions : insertGoalieStat(g, p, rev)
  \/ \E g \in GameIds, p \in PlayerIds, rev \in Revisions : insertGoalieGameStats(g, p, rev)
  \/ \E g \in GameIds, t \in TeamIds, rev \in Revisions : insertTeamGameStat(g, t, rev)
  \/ \E g \in GameIds, t \in TeamIds, rev \in Revisions : insertTeamGameStats(g, t, rev)

\* ------------------------------------------------------------------------
\* Part 3: the per-game stages of a box score and the season aggregator
\* ------------------------------------------------------------------------
SeasonGameIds == {1, 2, 3}   \* two games of the first season, one of the second
OtherRevision(rev) == IF rev = "first" THEN "revised" ELSE "first"

\* The box score of game g: one skater on each side, the score of the game.
Boxscore(g, rev) ==
  [homeTeam |-> [id |-> Game(g, rev).homeTeam.id,
                 players |-> <<[playerId |-> 1, skaterStats |-> SkaterStats(rev)]>>,
                 score |-> Game(g, rev).homeTeam.score,
                 sog |-> TeamData(rev).sog, hits |-> TeamData(rev).hits,
                 teamStats |-> [TeamStats(rev) EXCEPT !.goals = Game(g, rev).homeTeam.score]],
   awayTeam |-> [id |-> Game(g, rev).awayTeam.id,
                 players |-> <<[playerId |-> 2,
                                skaterStats |-> SkaterStats(OtherRevision(rev))]>>,
                 score |-> Game(g, rev).awayTeam.score,
                 sog |-> TeamData(rev).sog, hits |-> TeamData(rev).hits,
                 teamStats |-> [TeamStats(rev) EXCEPT !.goals = Game(g, rev).awayTeam.score]]]

\* ---- the stages as functions of the store ----
GameStored(v, st, g, rev) ==
  IF v = VariantComplete
  THEN [st EXCEPT !.games = Upsert(@, {"id"}, {"home_score", "away_score", "game_state"},
                                   GameValues(Game(g, rev), SeasonOf(g)))]
  ELSE [st EXCEPT !.games = Upsert(@, {"id"},
                                   AllColumns(CompleteGameValues(Game(g, rev), SeasonOf(g)), {"id"}),
                                   CompleteGameValues(Game(g, rev), SeasonOf(g)))]

PlayerGameStatStored(v, table, g, p, t, stats) ==
  IF v = VariantComplete
  THEN InsertIfAbsent(table, {"game_id", "player_id"}, PlayerGameStatValues(g, p, t, stats))
  ELSE Upsert(table, {"game_id", "player_id"},
              AllColumns(PlayerGameStatsValues(g, p, t, stats), {"game_id", "player_id"}),
              PlayerGameStatsValues(g, p, t, stats))

RECURSIVE PlayersStored(_, _, _, _, _)
PlayersStored(v, table, g, team, players) ==
  IF players = <<>> THEN table
  ELSE PlayersStored(v,
         PlayerGameStatStored(v, table, g, Head(players).playerId, team.id,
                              Head(players).skaterStats),
         g, team, Tail(players))

\* for (const teamKey of ['homeTeam', 'awayTeam']) for (const player of team.players)
PlayerGameStatsProcessed(v, st, g, box) ==
  [st EXCEPT !.player_game_stats =
     PlayersStored(v, PlayersStored(v, @, g, box.homeTeam, box.homeTeam.players),
                   g, box.awayTeam, box.awayTeam.players)]

TeamGameStatStored(v, table, g, team, isHome) ==
  IF v = VariantComplete
  THEN InsertIfAbsent(table, {"game_id", "team_id"},
                      TeamGameStatValues(g, team.id, isHome, team))
  ELSE Upsert(table, {"game_id", "team_id"},
              AllColumns(TeamGameStatsValues(g, team.id, isHome, team.teamStats),
                         {"game_id", "team_id"}),
              TeamGameStatsValues(g, team.id, isHome, team.teamStats))

TeamGameStatsProcessed(v, st, g, box) ==
  [st EXCEPT !.team_game_stats =
     TeamGameStatStored(v, TeamGameStatStored(v, @, g, box.homeTeam, TRUE),
                        g, box.awayTeam, FALSE)]

\* ---- SQL aggregation ----
Range(seq) == { seq[i] : i \in 1..Len(seq) }
\* FROM table t JOIN games g ON t.game_id = g.id: the rows of the table, each
\* with the columns of its game (games.id is the conflict target of the game
\* upsert, a game id has one row)
GameOf(st, id) == st.games[CHOOSE i \in 1..Len(st.games) : st.games[i].id = id]
HasGame(st, id) == \E i \in 1..Len(st.games) : st.games[i].id = id
RECURSIVE Sum(_, _)
Sum(rows, col) == IF rows = <<>> THEN 0 ELSE Head(rows)[col] + Sum(Tail(rows), col)
\* SUM(CASE WHEN <test> THEN 1 ELSE 0 END)
CountWhere(rows, st, Test(_, _)) ==
  Len(SelectSeq(rows, LAMBDA r : Test(r, GameOf(st, r.game_id))))
RECURSIVE SumAgainst(_, _)
\* SUM(CASE WHEN is_home THEN away_score ELSE home_score END)
SumAgainst(rows, st) ==
  IF rows = <<>> THEN 0
  ELSE (IF Head(rows).is_home THEN GameOf(st, Head(rows).game_id).away_score
        ELSE GameOf(st, Head(rows).game_id).home_score)
       + SumAgainst(Tail(rows), st)

\* n / d is held as the pair <<n, d>>
Ratio(n, d) == <<n, d>>

\* FROM player_game_stats pgs JOIN games g ON pgs.game_id = g.id WHERE g.season = $1
SeasonRows(st, table, season) ==
  SelectSeq(table, LAMBDA r : HasGame(st, r.game_id) /\ GameOf(st, r.game_id).season = season)
\* GROUP BY player_id, team_id
PlayerGroups(st, season) ==
  { <<r.player_id, r.team_id>> : r \in Range(SeasonRows(st, st.player_game_stats, season)) }
GroupRows(st, season, grp) ==
  SelectSeq(SeasonRows(st, st.player_game_stats, season),
            LAMBDA r : r.player_id = grp[1] /\ r.team_id = grp[2])

\* the SELECT list of calculateSeasonStats (complete variant)
SeasonStatsValues(rows, grp, season) ==
  [player_id |-> grp[1], season |-> season, team_id |-> grp[2],
   games_played |-> Len(rows),
   goals |-> Sum(rows, "goals"),
   assists |-> Sum(rows, "assists"),
   points |-> Sum(rows, "points"),
   plus_minus |-> Sum(rows, "plus_minus"),
   penalty_minutes |-> Sum(rows, "penalty_minutes"),
   shots |-> Sum(rows, "shots"),
   time_on_ice_total_seconds |-> Sum(rows, "time_on_ice_seconds")]
\* the SELECT list of calculatePlayerSeasonStats (data variant)
PlayerSeasonStatsValues(rows, grp, season) ==
  [player_id |-> grp[1], season |-> season, team_id |-> grp[2],
   games_played |-> Len(rows),
   goals |-> Sum(rows, "goals"),
   assists |-> Sum(rows, "assists"),
   points |-> Sum(rows, "points"),
   plus_minus |-> Sum(rows, "plus_minus"),
   penalty_minutes |-> Sum(rows, "penalty_minutes"),
   shots |-> Sum(rows, "shots"),
   shooting_percentage |-> IF Sum(rows, "shots") > 0
                           THEN Ratio(Sum(rows, "goals") * 100, Sum(rows, "shots"))
                           ELSE Ratio(0, 1),
   time_on_ice_total_seconds |-> Sum(rows, "time_on_ice_seconds"),
   time_on_ice_avg_seconds |-> Ratio(Sum(rows, "time_on_ice_seconds"), Len(rows)),
   powerplay_time_total_seconds |-> Sum(rows, "powerplay_time_seconds")]

\* SeasonUpsert, adding games_played to the stored count where it should replace it.
SeasonUpsertIncrements(table, key, cols, new) ==
  IF Count(table, key, new) = 0 THEN InsertRow(table, new)
  ELSE [i \in 1..Len(table) |->
          IF Matches(table[i], key, new)
          THEN [Overwrite(table[i], cols, new) EXCEPT
                  !.games_played = table[i].games_played + new.games_played]
          ELSE table[i]]
\* INSERT INTO <season table> ... ON CONFLICT (...) DO UPDATE SET col = EXCLUDED.col
SeasonUpsert(table, key, cols, new) == Upsert(table, key, cols, new)

RECURSIVE UpsertEach(_, _, _, _)
UpsertEach(table, key, cols, news) ==
  IF news = {} THEN table
  ELSE LET new == CHOOSE n \in news : TRUE
       IN UpsertEach(SeasonUpsert(table, key, cols, new), key, cols, news \ {new})

PlayerSeasonKey == {"player_id", "season", "team_id"}
PlayerSeasonAggregated(v, st, season) ==
  IF v = VariantComplete
  THEN [st EXCEPT !.player_season_stats =
          UpsertEach(@, PlayerSeasonKey, {"games_played", "goals", "assists", "points"},
                     { SeasonStatsValues(GroupRows(st, season, grp), grp, season) :
                         grp \in PlayerGroups(st, season) })]
  ELSE [st EXCEPT !.player_season_stats =
          UpsertEach(@, PlayerSeasonKey,
                     {"games_played", "goals", "assists", "points", "plus_minus",
                      "penalty_minutes", "shots", "shooting_percentage",
                      "time_on_ice_total_seconds", "time_on_ice_avg_seconds",
                      "powerplay_time_total_seconds"},
                     { PlayerSeasonStatsValues(GroupRows(st, season, grp), grp, season) :
                         grp \in PlayerGroups(st, season) })]

\* FROM team_game_stats tgs JOIN games g ON tgs.game_id = g.id
\* WHERE tgs.team_id = $1 AND g.season = $2 AND g.game_state = 'Final'
TeamSeasonRows(st, t, season) ==
  SelectSeq(st.team_game_stats,
            LAMBDA r : /\ r.team_id = t
                       /\ HasGame(st, r.game_id)
                       /\ GameOf(st, r.game_id).season = season
                       /\ GameOf(st, r.game_id).game_state = "Final")
Won(r, g) ==
  (r.is_home /\ g.home_score > g.away_score) \/ (~r.is_home /\ g.away_score > g.home_score)
Lost(r, g) ==
  (r.is_home /\ g.home_score < g.away_score) \/ (~r.is_home /\ g.away_score < g.home_score)
\* data variant: "... OR ... AND period <= 3", AND binding tighter than OR
LostPeriodUpTo3(r, g) ==
  (r.is_home /\ g.home_score < g.away_score)
    \/ (~r.is_home /\ g.away_score < g.home_score /\ g.period <= 3)
LostPeriodOver3(r, g) ==
  (r.is_home /\ g.home_score < g.away_score)
    \/ (~r.is_home /\ g.away_score < g.home_score /\ g.period > 3)

RECURSIVE Digits(_)
Digits(n) == IF n < 10 THEN 1 ELSE 1 + Digits(n \div 10)
RECURSIVE PowerOfTen(_)
PowerOfTen(k) == IF k = 0 THEN 1 ELSE 10 * PowerOfTen(k - 1)
\* number + string in JavaScript: the decimal digits of the number followed
\* by the string; the integer column reads the result back as a number.
\* (node-postgres returns the bigint of SUM and COUNT as a string.)
NumberPlusString(n, s) == n * PowerOfTen(Digits(s)) + s

\* calculateTeamSeasonStats of the complete variant: the row of one team
TeamSeasonValues(st, t, season) ==
  LET rows == TeamSeasonRows(st, t, season)
      wins == CountWhere(rows, st, Won)
  IN [team_id |-> t, season |-> season,
      games_played |-> Len(rows),
      wins |-> wins,
      losses |-> CountWhere(rows, st, Lost),
      points |-> wins * 2,
      goals_for |-> Sum(rows, "goals"),
      goals_against |-> SumAgainst(rows, st),
      goal_differential |-> Sum(rows, "goals") - SumAgainst(rows, st)]
\* calculateTeamSeasonStats of the data variant: the row of one team
TeamSeasonStatsValues(st, t, season) ==
  LET rows == TeamSeasonRows(st, t, season)
      wins == CountWhere(rows, st, Won)
      overtime_losses == CountWhere(rows, st, LostPeriodOver3)
  IN [team_id |-> t, season |-> season,
      games_played |-> Len(rows),
      wins |-> wins,
      losses |-> CountWhere(rows, st, LostPeriodUpTo3),
      overtime_losses |-> overtime_losses,
      points |-> NumberPlusString(wins * 2, overtime_losses),
      goals_for |-> Sum(rows, "goals"),
      goals_against |-> SumAgainst(rows, st),
      goal_differential |-> Sum(rows, "goals") - SumAgainst(rows, st)]

TeamSeasonKey == {"team_id", "season"}
\* for (const team of teams.rows) ... if (games_played > 0) INSERT ... ON CONFLICT
\* TeamSeasonWritten without the test of games_played.
TeamSeasonWrittenAlways(table, new) ==
  SeasonUpsert(table, TeamSeasonKey, AllColumns(new, TeamSeasonKey), new)
\* if (stats && parseInt(stats.games_played) > 0) INSERT ... ON CONFLICT
TeamSeasonWritten(table, new) ==
  IF new.games_played > 0
  THEN SeasonUpsert(table, TeamSeasonKey, AllColumns(new, TeamSeasonKey), new)
  ELSE table
RECURSIVE TeamSeasonEach(_, _, _, _, _)
TeamSeasonEach(v, st, season, teams, table) ==
  IF teams = <<>> THEN table
  ELSE LET t == Head(teams).id
           new == IF v = VariantComplete THEN TeamSeasonValues(st, t, season)
                  ELSE TeamSeasonStatsValues(st, t, season)
       IN TeamSeasonEach(v, st, season, Tail(teams), TeamSeasonWritten(table, new))
TeamSeasonAggregated(v, st, season) ==
  [st EXCEPT !.team_season_stats = TeamSeasonEach(v, st, season, st.teams, @)]

\* ---- the actions ----
processPlayerGameStats(g, rev) ==
  /\ variant = VariantComplete
  /\ Call("processPlayerGameStats", <<g, rev>>,
          PlayerGameStatsProcessed(variant, store, g, Boxscore(g, rev)))
processCompletePlayerGameStats(g, rev) ==
  /\ variant = VariantData
  /\ Call("processCompletePlayerGameStats", <<g, rev>>,
          PlayerGameStatsProcessed(variant, store, g, Boxscore(g, rev)))
processTeamGameStats(g, rev) ==
  /\ variant \in Variants
  /\ Call("processTeamGameStats", <<g, rev>>,
          TeamGameStatsProcessed(variant, store, g, Boxscore(g, rev)))
calculateSeasonStats(season) ==
  /\ variant = VariantComplete
  /\ Call("calculateSeasonStats", <<season>>,
          TeamSeasonAggregated(variant, PlayerSeasonAggregated(variant, store, season), season))
calculatePlayerSeasonStats(season) ==
  /\ variant = VariantData
  /\ Call("calculatePlayerSeasonStats", <<season>>,
          PlayerSeasonAggregated(variant, store, season))
calculateTeamSeasonStats(season) ==
  /\ variant = VariantData
  /\ Call("calculateTeamSeasonStats", <<season>>,
          TeamSeasonAggregated(variant, store, season))

\* The store when the teams and games stages of a first run have finished.
RECURSIVE GamesStored(_, _, _, _)
GamesStored(v, st, games, rev) ==
  IF games = {} THEN st
  ELSE LET g == CHOOSE x \in games : \A y \in games : x <= y
       IN GamesStored(v, GameStored(v, st, g, rev), games \ {g}, rev)
TeamsStored(v, st) ==
  IF v = VariantComplete
  THEN [st EXCEPT !.teams = <<TeamValues(Standing(1, "revised")),
                              TeamValues(Standing(2, "revised"))>>]
  ELSE [st EXCEPT !.teams =
          <<CompleteTeamValues(Standing(1, "revised"), Team(1, "revised")),
            CompleteTeamValues(Standing(2, "revised"), Team(2, "revised"))>>]
StoreAfterGamesStage(v) ==
  GamesStored(v, TeamsStored(v, EmptyStore), SeasonGameIds, "revised")

\* One pass of the stages of a season over a store, the upstream serving
\* revision rev of every game and box score: the games stage, the per-game
\* stat stages over the stored 'Final' games of the season in stored order,
\* then the season aggregates.
FinalGames(st, season) ==
  SelectSeq(st.games, LAMBDA g : g.season = season /\ g.game_state = "Final")
RECURSIVE PlayerGameStatsStage(_, _, _, _)
PlayerGameStatsStage(v, st, games, rev) ==
  IF games = <<>> THEN st
  ELSE PlayerGameStatsStage(v,
         PlayerGameStatsProcessed(v, st, Head(games).id, Boxscore(Head(games).id, rev)),
         Tail(games), rev)
RECURSIVE TeamGameStatsStage(_, _, _, _)
TeamGameStatsStage(v, st, games, rev) ==
  IF games = <<>> THEN st
  ELSE TeamGameStatsStage(v,
         TeamGameStatsProcessed(v, st, Head(games).id, Boxscore(Head(games).id, rev)),
         Tail(games), rev)
SeasonPass(v, st, season, rev) ==
  LET withGames == GamesStored(v, st, { g \in SeasonGameIds : SeasonOf(g) = season }, rev)
      withPlayerStats ==
        PlayerGameStatsStage(v, withGames, FinalGames(withGames, season), rev)
      withTeamStats ==
        TeamGameStatsStage(v, withPlayerStats, FinalGames(withPlayerStats, season), rev)
  IN TeamSeasonAggregated(v, PlayerSeasonAggregated(v, withTeamStats, season), season)

SeasonsAggregated == {AllSeasons[1], AllSeasons[2]}

\* ---- the stages of a season as steps ----
backfillAllGamesForSeason(season, rev) ==
  /\ variant \in Variants
  /\ Call("backfillAllGamesForSeason", <<season, rev>>,
          GamesStored(variant, store, { g \in SeasonGameIds : SeasonOf(g) = season }, rev))
backfillPlayerGameStats(season, rev) ==
  /\ variant \in Variants
  /\ Call("backfillPlayerGameStats", <<season, rev>>,
          PlayerGameStatsStage(variant, store, FinalGames(store, season), rev))
backfillTeamGameStats(season, rev) ==
  /\ variant \in Variants
  /\ Call("backfillTeamGameStats", <<season, rev>>,
          TeamGameStatsStage(variant, store, FinalGames(store, season), rev))
\* the stages of one season of startCompleteBackfill, one after the other
seasonStages(season, rev) ==
  /\ variant \in Variants
  /\ Call("seasonStages", <<season, rev>>, SeasonPass(variant, store, season, rev))
NextSeason ==
  \/ \E g \in SeasonGameIds, rev \in Revisions : insertGame(g, rev)
  \/ \E g \in SeasonGameIds, rev \in Revisions : insertCompleteGameData(g, rev)
  \/ \E g \in SeasonGameIds, rev \in Revisions : processPlayerGameStats(g, rev)
  \/ \E g \in SeasonGameIds, rev \in Revisions : processCompletePlayerGameStats(g, rev)
  \/ \E g \in SeasonGameIds, rev \in Revisions : processTeamGameStats(g, rev)
  \/ \E season \in SeasonsAggregated : calculateSeasonStats(season)
  \/ \E season \in SeasonsAggregated : calculatePlayerSeasonStats(season)
  \/ \E season \in SeasonsAggregated : calculateTeamSeasonStats(season)

\* ---------------------------------------------------------------------
\* Part 4: the teams stage with its fallback, and the test backfill
\* ---------------------------------------------------------------------
CAPITALS_TEAM_ID == 15

\* insertFallbackTeams: const teams = [...]
FallbackTeams == <<
  [id |-> 1, name |-> "New Jersey Devils", abbrev |-> "NJD", city |-> "New Jersey",
   division |-> "Metropolitan", conference |-> "Eastern"],
  [id |-> 2, name |-> "New York Islanders", abbrev |-> "NYI", city |-> "New York",
   division |-> "Metropolitan", conference |-> "Eastern"],
  [id |-> 3, name |-> "New York Rangers", abbrev |-> "NYR", city |-> "New York",
   division |-> "Metropolitan", conference |-> "Eastern"],
  [id |-> 4, name |-> "Philadelphia Flyers", abbrev |-> "PHI", city |-> "Philadelphia",
   division |-> "Metropolitan", conference |-> "Eastern"],
  [id |-> 5, name |-> "Pittsburgh Penguins", abbrev |-> "PIT", city |-> "Pittsburgh",
   division |-> "Metropolitan", conference |-> "Eastern"],
  [id |-> 6, name |-> "Boston Bruins", abbrev |-> "BOS", city |-> "Boston",
   division |-> "Atlantic", conference |-> "Eastern"],
  [id |-> 7, name |-> "Buffalo Sabres", abbrev |-> "BUF", city |-> "Buffalo",
   division |-> "Atlantic", conference |-> "Eastern"],
  [id |-> 8, name |-> "Montreal Canadiens", abbrev |-> "MTL", city |-> "Montreal",
   division |-> "Atlantic", conference |-> "Eastern"],
  [id |-> 9, name |-> "Ottawa Senators", abbrev |-> "OTT", city |-> "Ottawa",
   division |-> "Atlantic", conference |-> "Eastern"],
  [id |-> 10, name |-> "Toronto Maple Leafs", abbrev |-> "TOR", city |-> "Toronto",
   division |-> "Atlantic", conference |-> "Eastern"],
  [id |-> 12, name |-> "Carolina Hurricanes", abbrev |-> "CAR", city |-> "Carolina",
   division |-> "Metropolitan", conference |-> "Eastern"],
  [id |-> 13, name |-> "Florida Panthers", abbrev |-> "FLA", city |-> "Florida",
   division |-> "Atlantic", conference |-> "Eastern"],
  [id |-> 14, name |-> "Tampa Bay Lightning", abbrev |-> "TBL", city |-> "Tampa Bay",
   division |-> "Atlantic", conference |-> "Eastern"],
  [id |-> 15, name |-> "Washington Capitals", abbrev |-> "WSH", city |-> "Washington",
   division |-> "Metropolitan", conference |-> "Eastern"],
  [id |-> 16, name |-> "Chicago Blackhawks", abbrev |-> "CHI", city |-> "Chicago",
   division |-> "Central", conference |-> "Western"],
  [id |-> 17, name |-> "Detroit Red Wings", abbrev |-> "DET", city |-> "Detroit",
   division |-> "Atlantic", conference |-> "Eastern"],
  [id |-> 18, name |-> "Nashville Predators", abbrev |-> "NSH", city |-> "Nashville",
   division |-> "Central", conference |-> "Western"],
  [id |-> 19, name |-> "St. Louis Blues", abbrev |-> "STL", city |-> "St. Louis",
   division |-> "Central", conference |-> "Western"],
  [id |-> 20, name |-> "Calgary Flames", abbrev |-> "CGY", city |-> "Calgary",
   division |-> "Pacific", conference |-> "Western"],
  [id |-> 21, name |-> "Colorado Avalanche", abbrev |-> "COL", city |-> "Colorado",
   division |-> "Central", conference |-> "Western"],
  [id |-> 22, name |-> "Edmonton Oilers", abbrev |-> "EDM", city |-> "Edmonton",
   division |-> "Pacific", conference |-> "Western"],
  [id |-> 23, name |-> "Vancouver Canucks", abbrev |-> "VAN", city |-> "Vancouver",
   division |-> "Pacific", conference |-> "Western"],
  [id |-> 24, name |-> "Anaheim Ducks", abbrev |-> "ANA", city |-> "Anaheim",
   division |-> "Pacific", conference |-> "Western"],
  [id |-> 25, name |-> "Dallas Stars", abbrev |-> "DAL", city |-> "Dallas",
   division |-> "Central", conference |-> "Western"],
  [id |-> 26, name |-> "Los Angeles Kings", abbrev |-> "LAK", city |-> "Los Angeles",
   division |-> "Pacific", conference |-> "Western"],
  [id |-> 27, name |-> "San Jose Sharks", abbrev |-> "SJS", city |-> "San Jose",
   division |-> "Pacific", conference |-> "Western"],
  [id |-> 28, name |-> "Columbus Blue Jackets", abbrev |-> "CBJ", city |-> "Columbus",
   division |-> "Metropolitan", conference |-> "Eastern"],
  [id |-> 29, name |-> "Minnesota Wild", abbrev |-> "MIN", city |-> "Minnesota",
   division |-> "Central", conference |-> "Western"],
  [id |-> 30, name |-> "Winnipeg Jets", abbrev |-> "WPG", city |-> "Winnipeg",
   division |-> "Central", conference |-> "Western"],
  [id |-> 53, name |-> "Arizona Coyotes", abbrev |-> "ARI", city |-> "Arizona",
   division |-> "Central", conference |-> "Western"],
  [id |-> 54, name |-> "Vegas Golden Knights", abbrev |-> "VGK", city |-> "Las Vegas",
   division |-> "Pacific", conference |-> "Western"],
  [id |-> 55, name |-> "Seattle Kraken", abbrev |-> "SEA", city |-> "Seattle",
   division |-> "Pacific", conference |-> "Western"] >>

\* insertFallbackCapitalsPlayers: const players = [...]
FallbackCapitalsPlayers == <<
  [id |-> 8471214, firstName |-> "Alexander", lastName |-> "Ovechkin", position |-> "LW", number |-> 8],
  [id |-> 8470638, firstName |-> "Nicklas", lastName |-> "Backstrom", position |-> "C", number |-> 19],
  [id |-> 8476453, firstName |-> "John", lastName |-> "Carlson", position |-> "D", number |-> 74],
  [id |-> 8476872, firstName |-> "T.J.", lastName |-> "Oshie", position |-> "RW", number |-> 77],
  [id |-> 8477493, firstName |-> "Evgeny", lastName |-> "Kuznetsov", position |-> "C", number |-> 92],
  [id |-> 8477998, firstName |-> "Tom", lastName |-> "Wilson", position |-> "RW", number |-> 43],
  [id |-> 8478402, firstName |-> "Charlie", lastName |-> "Lindgren", position |-> "G", number |-> 79],
  [id |-> 8480817, firstName |-> "Dylan", lastName |-> "Strome", position |-> "C", number |-> 17],
  [id |-> 8481522, firstName |-> "Anthony", lastName |-> "Mantha", position |-> "RW", number |-> 39],
  [id |-> 8482073, firstName |-> "Connor", lastName |-> "McMichael", position |-> "C", number |-> 24] >>

\* insertSampleCapitalsGames: const games = [...]
SampleCapitalsGames == <<
  [id |-> 2024020500, homeTeamId |-> 15, awayTeamId |-> 3, homeScore |-> 4, awayScore |-> 2,
   gameDate |-> "2024-12-20", venue |-> "Capital One Arena"],
  [id |-> 2024020501, homeTeamId |-> 6, awayTeamId |-> 15, homeScore |-> 3, awayScore |-> 1,
   gameDate |-> "2024-12-18", venue |-> "TD Garden"],
  [id |-> 2024020502, homeTeamId |-> 15, awayTeamId |-> 5, homeScore |-> 2, awayScore |-> 3,
   gameDate |-> "2024-12-15", venue |-> "Capital One Arena"],
  [id |-> 2024020503, homeTeamId |-> 13, awayTeamId |-> 15, homeScore |-> 1, awayScore |-> 4,
   gameDate |-> "2024-12-12", venue |-> "FLA Live Arena"],
  [id |-> 2024020504, homeTeamId |-> 15, awayTeamId |-> 14, homeScore |-> 5, awayScore |-> 2,
   gameDate |-> "2024-12-10", venue |-> "Capital One Arena"] >>

\* insertSampleTeamStats: const stats = [...]
SampleTeamStats == <<
  [gameId |-> 2024020500, teamId |-> 15, isHome |-> TRUE, goals |-> 4, shots |-> 32, hits |-> 18],
  [gameId |-> 2024020500, teamId |-> 3, isHome |-> FALSE, goals |-> 2, shots |-> 28, hits |-> 22] >>

\* INSERT ... ON CONFLICT (key) DO NOTHING, the conflict ignored: the row is
\* inserted again.
InsertOrNothingAlwaysInserts(table, key, new) == InsertRow(table, new)
\* INSERT ... ON CONFLICT (key) DO NOTHING
InsertOrNothing(table, key, new) ==
  IF Count(table, key, new) = 0 THEN InsertRow(table, new) ELSE table

RECURSIVE FallbackTeamsFrom(_, _)
FallbackTeamsFrom(table, teams) ==
  IF teams = <<>> THEN table
  ELSE LET written ==
           Upsert(table, {"id"}, {"name"},
                  [id |-> Head(teams).id, name |-> Head(teams).name,
                   abbreviation |-> Head(teams).abbrev, city |-> Head(teams).city,
                   division |-> Head(teams).division, conference |-> Head(teams).conference])
       \* the row is written before the next one is taken up
       IN IF written = <<>> THEN written ELSE FallbackTeamsFrom(written, Tail(teams))
insertFallbackTeams(st) == [st EXCEPT !.teams = FallbackTeamsFrom(@, FallbackTeams)]

RECURSIVE FallbackPlayersFrom(_, _)
FallbackPlayersFrom(table, players) ==
  IF players = <<>> THEN table
  ELSE LET written ==
           Upsert(table, {"id"}, {"team_id", "position", "jersey_number"},
                  [id |-> Head(players).id, team_id |-> CAPITALS_TEAM_ID,
                   first_name |-> Head(players).firstName,
                   last_name |-> Head(players).lastName,
                   position |-> Head(players).position,
                   jersey_number |-> Some(Head(players).number)])
       \* the row is written before the next one is taken up
       IN IF written = <<>> THEN written ELSE FallbackPlayersFrom(written, Tail(players))
insertFallbackCapitalsPlayers(st) ==
  [st EXCEPT !.players = FallbackPlayersFrom(@, FallbackCapitalsPlayers)]

RECURSIVE SampleGamesFrom(_, _, _)
SampleGamesFrom(table, games, season) ==
  IF games = <<>> THEN table
  ELSE LET written ==
           InsertOrNothing(table, {"id"},
                  [id |-> Head(games).id, season |-> season, game_type |-> "02",
                   date_time |-> Some(Head(games).gameDate),
                   home_team_id |-> Head(games).homeTeamId,
                   away_team_id |-> Head(games).awayTeamId,
                   home_score |-> Head(games).homeScore,
                   away_score |-> Head(games).awayScore,
                   game_state |-> "Final", venue |-> Head(games).venue])
       \* the row is written before the next one is taken up
       IN IF written = <<>> THEN written ELSE SampleGamesFrom(written, Tail(games), season)
\* insertSampleCapitalsGames with the first sample game left out.
insertSampleCapitalsGamesButFirst(st, season) ==
  [st EXCEPT !.games = SampleGamesFrom(@, Tail(SampleCapitalsGames), season)]
insertSampleCapitalsGames(st, season) ==
  [st EXCEPT !.games = SampleGamesFrom(@, SampleCapitalsGames, season)]

RECURSIVE SampleTeamStatsFrom(_, _)
SampleTeamStatsFrom(table, stats) ==
  IF stats = <<>> THEN table
  ELSE LET written ==
           InsertIfAbsent(table, {"game_id", "team_id"},
                  [game_id |-> Head(stats).gameId, team_id |-> Head(stats).teamId,
                   is_home |-> Head(stats).isHome, goals |-> Head(stats).goals,
                   shots |-> Head(stats).shots, hits |-> Head(stats).hits])
       \* the row is written before the next one is taken up
       IN IF written = <<>> THEN written ELSE SampleTeamStatsFrom(written, Tail(stats))
\* insertSampleTeamStats writing only the first of its two rows.
insertSampleTeamStatsHomeOnly(st) ==
  [st EXCEPT !.team_game_stats = SampleTeamStatsFrom(@, SubSeq(SampleTeamStats, 1, 1))]
insertSampleTeamStats(st) ==
  [st EXCEPT !.team_game_stats = SampleTeamStatsFrom(@, SampleTeamStats)]

\* the four steps of startTestBackfill(seasons)
TestBackfillSteps(st, seasons) ==
  insertSampleTeamStats(
    insertSampleCapitalsGames(
      insertFallbackCapitalsPlayers(insertFallbackTeams(st)), seasons[1]))

\* What fetch(standings/now) and response.json() give backfillAllTeams.
FetchFailures == {"network error", "unparsable body", "no standings list"}
FetchOutcomes == FetchFailures \cup {"empty standings list", "standings"}
RECURSIVE StandingsInserted(_, _)
StandingsInserted(table, standings) ==
  IF standings = <<>> THEN table
  ELSE LET written ==
           Upsert(table, {"id"}, {"name", "abbreviation", "division", "conference"},
                  TeamValues(Head(standings)))
       \* the row is written before the next one is taken up
       IN IF written = <<>> THEN written ELSE StandingsInserted(written, Tail(standings))
StandingsOf(outcome, rev) ==
  IF outcome = "standings" THEN <<Standing(1, rev), Standing(2, rev)>> ELSE <<>>
\* a throw of fetch or of response.json() is caught and the fallback inserted;
\* if (data.standings) is false for a missing list and true for an empty one
TeamsStage(st, outcome, rev) ==
  IF outcome \in FetchFailures THEN insertFallbackTeams(st)
  ELSE [st EXCEPT !.teams = StandingsInserted(@, StandingsOf(outcome, rev))]

\* startCompleteBackfill of the complete variant with every fetch failing:
\* the teams stage falls back, the players, games, per-game, shot and
\* advanced-stat stages insert nothing, the season aggregate runs on the store
RECURSIVE SeasonsAggregatedOffline(_, _, _)
SeasonsAggregatedOffline(v, st, seasons) ==
  IF seasons = <<>> THEN st
  ELSE SeasonsAggregatedOffline(v,
         TeamSeasonAggregated(v, PlayerSeasonAggregated(v, st, Head(seasons)), Head(seasons)),
         Tail(seasons))
CompleteBackfillOffline(st, seasons) ==
  SeasonsAggregatedOffline(VariantComplete, TeamsStage(st, "network error", "first"), seasons)

\* ---- the actions ----
backfillAllTeams(outcome, rev) ==
  /\ variant = VariantComplete
  /\ Call("backfillAllTeams", <<outcome, rev>>, TeamsStage(store, outcome, rev))
\* runSimpleTest: await service.startTestBackfill(['20232024'])
runSimpleTest ==
  /\ variant = VariantComplete
  /\ Call("runSimpleTest", <<>>, TestBackfillSteps(store, SubSeq(AllSeasons, 1, 1)))
completeBackfillOffline(seasons, includePlayoffs) ==
  /\ variant = VariantComplete
  /\ Call("completeBackfillOffline", <<seasons, includePlayoffs>>,
          CompleteBackfillOffline(store, seasons))

\* ---------------------------------------------------------------------
\* Part 5: the time fields of the row mappers, as text
\* ---------------------------------------------------------------------
\* A text is the sequence of its characters.  A JavaScript number is held as
\* Finite(n), or as NaN.
NaN == <<>>
Finite(n) == <<n>>
TimeChars == {"1", "5", ":", "a"}
RECURSIVE Texts(_)
Texts(n) ==
  IF n = 0 THEN {<<>>}
  ELSE Texts(n - 1) \cup { Append(t, ch) : t \in Texts(n - 1), ch \in TimeChars }
TimeTexts == Texts(MaxLen)

IsDigit(ch) == ch \in {"0", "1", "2", "3", "4", "5", "6", "7", "8", "9"}
DigitValue(ch) ==
  CASE ch = "0" -> 0 [] ch = "1" -> 1 [] ch = "2" -> 2 [] ch = "3" -> 3 [] ch = "4" -> 4
    [] ch = "5" -> 5 [] ch = "6" -> 6 [] ch = "7" -> 7 [] ch = "8" -> 8 [] ch = "9" -> 9
RECURSIVE DecimalValue(_, _)
DecimalValue(digits, sofar) ==
  IF digits = <<>> THEN sofar
  ELSE DecimalValue(Tail(digits), sofar * 10 + DigitValue(Head(digits)))
RECURSIVE LeadingDigits(_)
LeadingDigits(text) ==
  IF text = <<>> \/ ~IsDigit(Head(text)) THEN <<>>
  ELSE <<Head(text)>> \o LeadingDigits(Tail(text))
\* parseInt(text): the digits the text begins with, NaN when it begins with none
parseInt(text) ==
  IF LeadingDigits(text) = <<>> THEN NaN ELSE Finite(DecimalValue(LeadingDigits(text), 0))
\* Number(text): 0 for the empty text, the value of a text of digits, else NaN
Number(text) ==
  IF text = <<>> THEN Finite(0)
  ELSE IF LeadingDigits(text) = text THEN Finite(DecimalValue(text, 0))
  ELSE NaN
\* text.split(':')
RECURSIVE split(_, _)
split(text, part) ==
  IF text = <<>> THEN <<part>>
  ELSE IF Head(text) = ":" THEN <<part>> \o split(Tail(text), <<>>)
  ELSE split(Tail(text), Append(part, Head(text)))
\* a * b, a + b, a - b of JavaScript numbers
Times(a, b) == IF a = NaN \/ b = NaN THEN NaN ELSE Finite(a[1] * b[1])
Plus(a, b) == IF a = NaN \/ b = NaN THEN NaN ELSE Finite(a[1] + b[1])
Minus(a, b) == IF a = NaN \/ b = NaN THEN NaN ELSE Finite(a[1] - b[1])
\* x || 0 of a JavaScript number: NaN and 0 are falsy
OrZero(x) == IF x = NaN THEN Finite(0) ELSE x

\* parseTimeToSeconds on the text of the field
parseTimeToSecondsOfText(timeString) ==
  IF timeString = <<>> THEN Finite(0)
  ELSE LET parts == split(timeString, <<>>)
       IN IF Len(parts) = 2
          THEN Plus(Times(parseInt(parts[1]), Finite(60)), parseInt(parts[2]))
          ELSE Finite(0)
\* const [minutes, seconds] = timeInPeriod.split(':').map(Number): a part
\* that is missing is undefined, and arithmetic on undefined gives NaN
parseGameTimeToSeconds(timeInPeriod, period) ==
  IF timeInPeriod = <<>> THEN Finite(0)
  ELSE LET parts == split(timeInPeriod, <<>>)
           minutes == Number(parts[1])
           seconds == IF Len(parts) >= 2 THEN Number(parts[2]) ELSE NaN
       IN Minus(Finite(20 * 60), Plus(Times(minutes, Finite(60)), seconds))

\* The row of a skater whose timeOnIce (and, in the data variant, power-play
\* timeOnIce) is the text given; the other fields are those of SkaterStats.
TimedPlayerGameStatValues(v, g, p, t, text) ==
  IF v = VariantComplete
  THEN [PlayerGameStatValues(g, p, t, SkaterStats("revised")) EXCEPT
          !.time_on_ice_seconds = parseTimeToSecondsOfText(text)]
  ELSE [PlayerGameStatsValues(g, p, t, SkaterStats("revised")) EXCEPT
          !.time_on_ice_seconds = parseTimeToSecondsOfText(text),
          !.powerplay_time_seconds = OrZero(parseTimeToSecondsOfText(text))]
\* the values of insertShotData that come from the time and period of the play
ShotValues(g, timeInPeriod, period) ==
  [game_id |-> g,
   period |-> OrElse(period, 1),
   time_remaining_seconds |-> parseGameTimeToSeconds(timeInPeriod, period)]

mapTimeOnIce(g, p, text) ==
  /\ variant \in Variants
  /\ Call("mapTimeOnIce", <<g, p, text>>,
          [store EXCEPT !.player_game_stats =
             InsertRow(@, TimedPlayerGameStatValues(variant, g, p, 1, text))])
\* INSERT INTO shots ... ON CONFLICT DO NOTHING: the statement names no
\* conflict target and the mapper writes no key of its own
insertShotData(g, timeInPeriod) ==
  /\ variant = VariantData
  /\ Call("insertShotData", <<g, timeInPeriod>>,
          [store EXCEPT !.shots = InsertRow(@, ShotValues(g, timeInPeriod, Some(1)))])

\* ---------------------------------------------------------------------
\* Part 6: the connection pool, and the season writes of databaseService
\* ---------------------------------------------------------------------
\* What the pool and the server can do to one unit of work: nothing, refuse
\* the connection, or fail one statement.
NoFailure == <<0, "none">>
ConnectFails == <<0, "connect">>
QueryFails == <<0, "query">>
BeginFails == <<0, "begin">>
\* x || d of a number: undefined, null and 0 are falsy
OrFalsy(x, d) == IF x = None \/ x = Some(0) THEN d ELSE x[1]

\* const client = await this.pool.connect()
Acquired(n) == n + 1
\* client.release()
Released(n) == n - 1

\* season.replace('-', ''): the season is held as the texts between its
\* dashes; the first dash goes, later ones stay
SeasonForDB(season) ==
  IF Len(season) < 2 THEN season
  ELSE <<season[1] \o season[2]>> \o SubSeq(season, 3, Len(season))
HistoricalSeason == <<"2023", "2024">>

\* a player of a season file: named by name, or by firstName and lastName
PuckPlayer(p) ==
  IF p = 1
  THEN [name |-> Some(<<"Alex", "Ovechkin">>), firstName |-> None, lastName |-> None,
        position |-> Some("L"), games |-> Some(79), goals |-> Some(31), assists |-> Some(34),
        points |-> None]
  ELSE [name |-> None, firstName |-> Some("Tom"), lastName |-> Some("Wilson"),
        position |-> None, games |-> Some(0), goals |-> Some(18), assists |-> Some(17),
        points |-> Some(35)]
PuckTeam(rev) ==
  IF rev = "first"
  THEN [games_played |-> Some(0), GP |-> None, wins |-> Some(40), W |-> None,
        goalsFor |-> Some(220), goalsAgainst |-> None]
  ELSE [games_played |-> None, GP |-> Some(82), wins |-> None, W |-> Some(41),
        goalsFor |-> Some(228), goalsAgainst |-> Some(245)]

\* player.name || `${player.firstName || ''} ${player.lastName || ''}`.trim(),
\* then split(' '): the first word and the rest
EnsuredName(player) ==
  IF player.name # None THEN player.name[1]
  ELSE <<OrElse(player.firstName, ""), OrElse(player.lastName, "")>>
\* player.name || `${player.firstName} ${player.lastName}`
LookupName(player) ==
  IF player.name # None THEN player.name[1]
  ELSE <<OrElse(player.firstName, "undefined"), OrElse(player.lastName, "undefined")>>
\* SELECT id FROM players WHERE team_id = $1 AND first_name = $2 AND last_name = $3 LIMIT 1
PlayerNamed(players, name) ==
  LET found == SelectSeq(players, LAMBDA r : /\ r.team_id = CAPITALS_TEAM_ID
                                             /\ r.first_name = name[1]
                                             /\ r.last_name = name[2])
  IN IF found = <<>> THEN None ELSE Some(found[1].id)
\* SELECT COALESCE(MAX(id), 0) + 1 FROM players
RECURSIVE MaxId(_)
MaxId(players) ==
  IF players = <<>> THEN 0
  ELSE LET rest == MaxId(Tail(players))
       IN IF Head(players).id > rest THEN Head(players).id ELSE rest

ensurePlayerExists(st, player) ==
  LET name == EnsuredName(player)
      existing == PlayerNamed(st.players, name)
  IN IF name = <<"", "">> THEN st
     ELSE IF existing = None
     THEN [st EXCEPT !.players =
             InsertRow(@, [id |-> MaxId(st.players) + 1, team_id |-> CAPITALS_TEAM_ID,
                           first_name |-> name[1], last_name |-> name[2],
                           position |-> OrElse(player.position, "F")])]
     ELSE [st EXCEPT !.players =
             SubSeq([i \in 1..Len(@) |->
                       IF @[i].id = existing[1] /\ @[i].team_id = CAPITALS_TEAM_ID
                       THEN [@[i] EXCEPT !.position = OrElse(player.position, "F")]
                       ELSE @[i]], 1, Len(@))]
getPlayerIdByName(st, player) == PlayerNamed(st.players, LookupName(player))
PuckPlayerStatsValues(playerId, player, season) ==
  [player_id |-> playerId, season |-> SeasonForDB(season), team_id |-> CAPITALS_TEAM_ID,
   games_played |-> OrFalsy(player.games, 0),
   goals |-> OrFalsy(player.goals, 0),
   assists |-> OrFalsy(player.assists, 0),
   points |-> OrFalsy(player.points, OrFalsy(player.goals, 0) + OrFalsy(player.assists, 0))]
\* SELECT id FROM player_season_stats WHERE ...; then INSERT, or UPDATE ... WHERE
upsertPlayerStats(st, playerId, player, season) ==
  [st EXCEPT !.player_season_stats =
     Upsert(@, PlayerSeasonKey, {"games_played", "goals", "assists", "points"},
            PuckPlayerStatsValues(playerId, player, season))]

\* The statements of the players from the k-th on, on the store the
\* connection sees.  A statement the server rejects writes nothing; inside a
\* transaction block it also aborts the block, and the server then rejects
\* every later statement of the block.  The catch around each player takes
\* the rejection and the loop goes on.
RECURSIVE PlayersProcessed(_, _, _, _, _, _, _)
PlayersProcessed(st, aborted, playerData, k, season, failure, inBlock) ==
  IF k > Len(playerData) THEN [store |-> st, aborted |-> aborted]
  ELSE
    LET player == playerData[k]
        Rejected(step) == aborted \/ failure = <<k, step>>
        ensureIssued == EnsuredName(player) # <<"", "">>
        ensured == ensurePlayerExists(st, player)
        playerId == getPlayerIdByName(ensured, player)
    IN IF ensureIssued /\ Rejected("ensure")
       THEN PlayersProcessed(st, inBlock, playerData, k + 1, season, failure, inBlock)
       ELSE IF Rejected("lookup")
       THEN PlayersProcessed(ensured, inBlock, playerData, k + 1, season, failure, inBlock)
       ELSE IF playerId = None
       THEN PlayersProcessed(ensured, aborted, playerData, k + 1, season, failure, inBlock)
       ELSE IF Rejected("stats")
       THEN PlayersProcessed(ensured, inBlock, playerData, k + 1, season, failure, inBlock)
       ELSE PlayersProcessed(upsertPlayerStats(ensured, playerId[1], player, season),
                             aborted, playerData, k + 1, season, failure, inBlock)

\* upsertPlayerSeasonStats without BEGIN: every statement commits by itself.
PlayerSeasonStatsUpsertedWithoutBegin(st, playerData, season, failure) ==
  IF playerData = <<>> \/ failure = ConnectFails THEN st
  ELSE PlayersProcessed(st, FALSE, playerData, 1, season, failure, FALSE).store
\* upsertPlayerSeasonStats: BEGIN, the players, COMMIT; COMMIT of an aborted
\* block rolls it back, and a throw of BEGIN is answered by ROLLBACK
PlayerSeasonStatsUpserted(st, playerData, season, failure) ==
  IF playerData = <<>> \/ failure = ConnectFails \/ failure = BeginFails THEN st
  ELSE LET done == PlayersProcessed(st, FALSE, playerData, 1, season, failure, TRUE)
       IN IF done.aborted THEN st ELSE done.store

TeamSeasonStatsValues82(teamData, season) ==
  [team_id |-> CAPITALS_TEAM_ID, season |-> SeasonForDB(season),
   games_played |-> OrFalsy(teamData.games_played, OrFalsy(teamData.GP, 82)),
   wins |-> OrFalsy(teamData.wins, OrFalsy(teamData.W, 0)),
   goal_differential |-> OrFalsy(teamData.goalsFor, 0) - OrFalsy(teamData.goalsAgainst, 0)]

\* One call on the service: the store after it, the connections checked out
\* after it, and how it settled.
DbCall(name, args, after, connections, settled) ==
  /\ CallStore(name, args, after)
  /\ checkedOut' = connections
  /\ events' = <<settled>>
  /\ UNCHANGED <<orchVars, script, api>>

\* ---- the actions ----
\* executeQuery of the backfill services: connect, query, finally release
executeQuery(failure) ==
  /\ opsLeft > 0
  /\ DbCall("executeQuery", <<failure>>, store,
            IF failure = ConnectFails THEN checkedOut ELSE Released(Acquired(checkedOut)),
            IF failure = NoFailure THEN "resolved" ELSE "rejected")
\* testConnection: connect, query, release, all inside the try; the catch
\* returns false
testConnection(failure) ==
  /\ opsLeft > 0
  /\ DbCall("testConnection", <<failure>>, store,
            IF failure = ConnectFails THEN checkedOut
            ELSE IF failure = QueryFails THEN Acquired(checkedOut)
            ELSE Released(Acquired(checkedOut)),
            "resolved")
upsertTeamSeasonStats(rev, failure) ==
  /\ opsLeft > 0
  /\ DbCall("upsertTeamSeasonStats", <<rev, failure>>,
            IF failure = NoFailure
            THEN [store EXCEPT !.team_season_stats =
                    Upsert(@, TeamSeasonKey, {"games_played", "wins", "goal_differential"},
                           TeamSeasonStatsValues82(PuckTeam(rev), HistoricalSeason))]
            ELSE store,
            IF failure = ConnectFails THEN checkedOut ELSE Released(Acquired(checkedOut)),
            IF failure = NoFailure THEN "resolved" ELSE "rejected")
upsertPlayerSeasonStats(playerData, failure) ==
  /\ opsLeft > 0
  /\ DbCall("upsertPlayerSeasonStats", <<playerData, failure>>,
            PlayerSeasonStatsUpserted(store, playerData, HistoricalSeason, failure),
            IF playerData = <<>> \/ failure = ConnectFails THEN checkedOut
            ELSE Released(Acquired(checkedOut)),
            IF playerData # <<>> /\ failure \in {ConnectFails, BeginFails}
            THEN "rejected" ELSE "resolved")
RECURSIVE Batches(_)
Batches(n) ==
  IF n = 0 THEN {<<>>}
  ELSE Batches(n - 1) \cup { Append(b, PuckPlayer(p)) : b \in Batches(n - 1), p \in {1, 2} }
BatchFailures(playerData) ==
  IF playerData = <<>> THEN {NoFailure}
  ELSE {NoFailure, ConnectFails, BeginFails}
         \cup { <<k, step>> : k \in 1..Len(playerData), step \in {"ensure", "lookup", "stats"} }

\* ---------------------------------------------------------------------
\* Part 7: the per-game loop of a stage, as the calls it makes in order
\* ---------------------------------------------------------------------
PerGameStages == {"playerGameStats", "teamGameStats", "goalieGameStats", "shots"}
\* await this.delay(ms) of the loop of each stage
StageDelay(v, stage) ==
  IF stage = "shots" THEN 300
  ELSE IF stage = "goalieGameStats" \/ v = VariantData THEN 200
  ELSE 150
\* What the fetch of one game and the processing of its payload can do.
GameOutcomes == {"ok", "not ok", "fetch throws", "processing throws"}
RECURSIVE OutcomeLists(_)
OutcomeLists(n) ==
  IF n = 0 THEN {<<>>}
  ELSE OutcomeLists(n - 1)
         \cup { Append(o, x) : o \in OutcomeLists(n - 1), x \in GameOutcomes }
\* the body of the loop for one game, up to where it is left
GameBody(v, stage, g, outcome) ==
  CASE outcome = "ok" ->
         <<<<"fetch", g>>, <<"process", g>>, <<"delay", StageDelay(v, stage)>>>>
    [] outcome = "not ok" -> <<<<"fetch", g>>, <<"delay", StageDelay(v, stage)>>>>
    [] outcome = "fetch throws" -> <<<<"fetch", g>>>>
    [] outcome = "processing throws" -> <<<<"fetch", g>>, <<"process", g>>>>
Throws(outcome) == outcome \in {"fetch throws", "processing throws"}
\* for (const game of gamesResult.rows): the complete variant catches a throw
\* inside the loop and takes the next game; the data variant has no catch
\* inside the loop, the throw leaves it
RECURSIVE GameLoop(_, _, _, _)
GameLoop(v, stage, g, outcomes) ==
  IF outcomes = <<>> THEN <<>>
  ELSE GameBody(v, stage, g, Head(outcomes))
         \o (IF Throws(Head(outcomes)) /\ v = VariantData THEN <<>>
             ELSE GameLoop(v, stage, g + 1, Tail(outcomes)))

perGameLoop(stage, outcomes) ==
  /\ opsLeft > 0
  /\ CallStore("perGameLoop", <<stage, outcomes>>, store)
  /\ events' = GameLoop(variant, stage, 1, outcomes)
  /\ UNCHANGED <<orchVars, checkedOut, script, api>>

\* ---------------------------------------------------------------------
\* Part 8: backfillHistoricalData of historicalDataService and its callbacks
\* ---------------------------------------------------------------------
NHL_SEASONS_START == 2008
\* for (let year = NHL_SEASONS_START; year < CURRENT_YEAR; year++): the start years
generateSeasons(currentYear) ==
  [k \in 1..(currentYear - NHL_SEASONS_START) |-> NHL_SEASONS_START + k - 1]
\* What fetchSeasonData gives for a season: the season's data, the season's
\* data with no row in it (fetchCSVData answers a failed download with []),
\* or null after a throw inside its try, before the data is cached.
SeasonOutcomes == {"data", "no rows", "null"}
RECURSIVE SeasonOutcomeLists(_)
SeasonOutcomeLists(n) ==
  IF n = 0 THEN {<<>>}
  ELSE { Append(o, x) : o \in SeasonOutcomeLists(n - 1), x \in SeasonOutcomes }

\* the body of the loop for seasons[i], the progress call of this pass
\* reporting one season more than were completed.
HistoricalSeasonPassCountsAhead(seasons, i, outcome, onProgress, onSeasonComplete) ==
  (IF onProgress
   THEN <<<<"onProgress", i, Ratio(i * 100, Len(seasons))>>>> ELSE <<>>)
  \o <<<<"fetch", seasons[i]>>>>
  \o (IF outcome = "null" THEN <<>> ELSE <<<<"cache", seasons[i]>>>>)
  \o (IF outcome # "null" /\ onSeasonComplete
      THEN <<<<"onSeasonComplete", seasons[i]>>>> ELSE <<>>)
  \o <<<<"delay", 1000>>>>
\* the body of the loop for seasons[i] (i counted from 1; the code's i is i - 1)
HistoricalSeasonPass(seasons, i, outcome, onProgress, onSeasonComplete) ==
  (IF onProgress
   THEN <<<<"onProgress", i - 1, Ratio((i - 1) * 100, Len(seasons))>>>> ELSE <<>>)
  \o <<<<"fetch", seasons[i]>>>>
  \o (IF outcome = "null" THEN <<>> ELSE <<<<"cache", seasons[i]>>>>)
  \o (IF outcome # "null" /\ onSeasonComplete
      THEN <<<<"onSeasonComplete", seasons[i]>>>> ELSE <<>>)
  \o <<<<"delay", 1000>>>>
RECURSIVE HistoricalLoop(_, _, _, _, _)
HistoricalLoop(seasons, i, outcomes, onProgress, onSeasonComplete) ==
  IF i > Len(seasons) THEN <<>>
  ELSE HistoricalSeasonPass(seasons, i, outcomes[i], onProgress, onSeasonComplete)
         \o HistoricalLoop(seasons, i + 1, outcomes, onProgress, onSeasonComplete)
\* the loop, then the final progress update and call
HistoricalBackfill(seasons, outcomes, onProgress, onSeasonComplete) ==
  HistoricalLoop(seasons, 1, outcomes, onProgress, onSeasonComplete)
    \o (IF onProgress THEN <<<<"onProgress", Len(seasons), Ratio(100, 1)>>>> ELSE <<>>)

backfillHistoricalData(currentYear, outcomes, onProgress, onSeasonComplete) ==
  /\ opsLeft > 0
  /\ Len(outcomes) = Len(generateSeasons(currentYear))
  /\ CallStore("backfillHistoricalData",
               <<currentYear, outcomes, onProgress, onSeasonComplete>>, store)
  /\ events' = HistoricalBackfill(generateSeasons(currentYear), outcomes,
                                  onProgress, onSeasonComplete)
  /\ UNCHANGED <<orchVars, checkedOut, script, api>>

\* ---------------------------------------------------------------------
\* Part 9: the shot rows of a play-by-play
\* ---------------------------------------------------------------------
ShotKinds == {"shot-on-goal", "goal", "missed-shot", "blocked-shot"}
ShotLimit == 100
Play(kind) ==
  [typeDescKey |-> kind,
   details |-> [shootingPlayerId |-> Some(1), eventOwnerTeamId |-> Some(1),
                shotType |-> None, shotDistance |-> None],
   periodDescriptor |-> Some(2),
   timeInPeriod |-> <<"5", ":", "1", "5">>]
RECURSIVE PlayLists(_)
PlayLists(n) ==
  IF n = 0 THEN {<<>>}
  ELSE PlayLists(n - 1)
       \cup { Append(l, Play(kind)) : l \in PlayLists(n - 1), kind \in {"goal", "faceoff"} }
\* a play-by-play payload: without a plays field, or with a list of plays
PlayByPlays == {None} \cup { Some(l) : l \in PlayLists(MaxPlays) }

\* insertShot of the complete variant: the values of the INSERT
ShotOfPlay(g, play) ==
  [game_id |-> g,
   shooter_id |-> play.details.shootingPlayerId,
   team_id |-> play.details.eventOwnerTeamId,
   period |-> OrElse(play.periodDescriptor, 1),
   shot_type |-> OrElse(play.details.shotType, "unknown"),
   is_goal |-> play.typeDescKey = "goal",
   shot_distance |-> play.details.shotDistance]
\* insertShotData of the data variant: the values of the INSERT
ShotDataOfPlay(g, play) ==
  LET timed == ShotValues(g, play.timeInPeriod, play.periodDescriptor)
  IN [game_id |-> g,
      shooter_id |-> play.details.shootingPlayerId,
      team_id |-> play.details.eventOwnerTeamId,
      period |-> timed.period,
      time_remaining_seconds |-> timed.time_remaining_seconds,
      shot_type |-> OrElse(play.details.shotType, "unknown"),
      is_goal |-> play.typeDescKey = "goal"]
\* INSERT INTO shots (...) VALUES (...)  [ON CONFLICT DO NOTHING]: neither
\* statement names a key, and neither writes an id
ShotInserted(v, table, g, play) ==
  InsertRow(table, IF v = VariantComplete THEN ShotOfPlay(g, play)
                   ELSE ShotDataOfPlay(g, play))
\* for (const play of playByPlay.plays) if (shot kinds include typeDescKey) ...;
\* the complete variant leaves the loop when shotCount > 100
RECURSIVE ShotsOfPlays(_, _, _, _, _)
ShotsOfPlays(v, table, g, plays, shotCount) ==
  IF plays = <<>> THEN table
  ELSE IF Head(plays).typeDescKey \in ShotKinds
  THEN LET written == ShotInserted(v, table, g, Head(plays))
       IN IF v = VariantComplete /\ shotCount + 1 > ShotLimit THEN written
          ELSE ShotsOfPlays(v, written, g, Tail(plays), shotCount + 1)
  ELSE ShotsOfPlays(v, table, g, Tail(plays), shotCount)
\* if (!playByPlay.plays) return;
ShotDataProcessed(v, st, g, playByPlay) ==
  IF playByPlay = None \/ playByPlay = Some(<<>>) THEN st
  ELSE [st EXCEPT !.shots = ShotsOfPlays(v, @, g, playByPlay[1], 0)]

processShotData(g, playByPlay) ==
  /\ variant \in Variants
  /\ Call("processShotData", <<g, playByPlay>>,
          ShotDataProcessed(variant, store, g, playByPlay))

\* ---------------------------------------------------------------------
\* Part 10: the historical backfill script: the loop of backfillHistoricalData
\* and the season callbacks it starts without awaiting them
\* ---------------------------------------------------------------------
SeasonYears == <<"2015", "2016", "2017", "2018", "2019">>
\* displayName of the k-th generated season, the texts between its dashes
ScriptSeason(k) == <<SeasonYears[k], SeasonYears[k + 1]>>
ScriptPlayer == PuckPlayer(1)

\* One call of the season callback: where it stands, what its statements
\* read, and what its open transaction has written and not yet committed.
NoTask ==
  [pc |-> "none", outcome |-> "null", found |-> None, nextId |-> 0, aborted |-> FALSE,
   inserted |-> None, updated |-> FALSE, playerId |-> None, stats |-> FALSE]
NoScript ==
  [pc |-> "idle", i |-> 0, n |-> 0, force |-> FALSE,
   seasonsWritten |-> 0, seasonsSkipped |-> 0, printed |-> None, poolEnded |-> FALSE,
   cache |-> {}, tasks |-> [k \in 1..MaxScriptSeasons |-> NoTask]]
StartedScript(n, force) == [NoScript EXCEPT !.pc = "loop", !.i = 1, !.n = n, !.force = force]

TaskIds == 1..MaxScriptSeasons
TaskDone(k) == script.tasks[k].pc \in {"none", "done"}
\* the players table as the statements of the transaction of callback k see
\* it: the committed rows and the row the transaction itself inserted
PlayersSeen(k) ==
  IF script.tasks[k].inserted = None THEN store.players
  ELSE Append(store.players, script.tasks[k].inserted[1])
\* SELECT 1 FROM team_season_stats WHERE team_id = $1 AND season = $2 LIMIT 1
SeasonStored(st, season) ==
  \E j \in 1..Len(st.team_season_stats) :
    /\ st.team_season_stats[j].team_id = CAPITALS_TEAM_ID
    /\ st.team_season_stats[j].season = SeasonForDB(season)
TeamSeasonStats82Upserted(st, teamData, season) ==
  [st EXCEPT !.team_season_stats =
     Upsert(@, TeamSeasonKey, {"games_played", "wins", "goal_differential"},
            TeamSeasonStatsValues82(teamData, season))]
\* UPDATE players SET position = $3 WHERE id = $1 AND team_id = $2
PlayerPositionUpdated(players, id, player) ==
  SubSeq([j \in 1..Len(players) |->
            IF players[j].id = id /\ players[j].team_id = CAPITALS_TEAM_ID
            THEN [players[j] EXCEPT !.position = OrElse(player.position, "F")]
            ELSE players[j]], 1, Len(players))
\* COMMIT: what the transaction of callback k wrote becomes part of the store
TransactionCommitted(st, t, season) ==
  LET withInsert == IF t.inserted = None THEN st
                    ELSE [st EXCEPT !.players = InsertRow(@, t.inserted[1])]
      withUpdate == IF t.updated
                    THEN [withInsert EXCEPT !.players =
                            PlayerPositionUpdated(@, t.found[1], ScriptPlayer)]
                    ELSE withInsert
  IN IF t.stats THEN upsertPlayerStats(withUpdate, t.playerId[1], ScriptPlayer, season)
     ELSE withUpdate

ScriptStep(after) ==
  /\ script' = after
  /\ UNCHANGED <<orchVars, lastOp, opsLeft, events, api>>
TaskStep(k, task) == ScriptStep([script EXCEPT !.tasks[k] = task])

\* ---- backfillHistoricalData and the script around it ----
\* one pass of the loop up to its delay: fetchSeasonData, the cache, and
\* onSeasonComplete(seasonData), whose promise is dropped
SeasonFetched(outcome) ==
  /\ script.pc = "loop"
  /\ ScriptStep([script EXCEPT
       !.pc = "delay",
       !.cache = IF outcome = "null" THEN @ ELSE @ \cup {script.i},
       !.tasks[script.i] = IF outcome = "null" THEN NoTask
                           ELSE [NoTask EXCEPT !.pc = "exists", !.outcome = outcome]])
  /\ UNCHANGED <<store, checkedOut>>
\* await new Promise(resolve => setTimeout(resolve, 1000)), then the next pass
\* or, after the last one, the return
DelayElapsed ==
  /\ script.pc = "delay"
  /\ ScriptStep(IF script.i < script.n
                THEN [script EXCEPT !.pc = "loop", !.i = @ + 1]
                ELSE [script EXCEPT !.pc = "resolved"])
  /\ UNCHANGED <<store, checkedOut>>
\* console.log(`Summary: ${seasonsWritten} seasons written, ${seasonsSkipped} seasons skipped`)
SummaryPrinted ==
  /\ script.pc = "resolved"
  /\ ScriptStep([script EXCEPT
       !.pc = "summary",
       !.printed = Some(<<script.seasonsWritten, script.seasonsSkipped>>)])
  /\ UNCHANGED <<store, checkedOut>>
\* await databaseService.getAvailableSeasons(); await databaseService.close()
PoolClosed ==
  /\ script.pc = "summary"
  /\ ScriptStep([script EXCEPT !.pc = "closed", !.poolEnded = TRUE])
  /\ UNCHANGED <<store, checkedOut>>

\* needsBackfill: this.cache.size < expectedSeasons
needsBackfill == Cardinality(script.cache) < script.n

\* ---- the season callback of the script ----
\* seasonExists (false when its query fails), then the skip
SeasonExistsChecked(k) ==
  /\ script.tasks[k].pc = "exists"
  /\ LET seasonExists == ~script.poolEnded /\ SeasonStored(store, ScriptSeason(k))
     IN IF seasonExists /\ ~script.force
        THEN ScriptStep([script EXCEPT !.tasks[k].pc = "done", !.seasonsSkipped = @ + 1])
        ELSE TaskStep(k, [script.tasks[k] EXCEPT !.pc = "team"])
  /\ UNCHANGED <<store, checkedOut>>
\* writeHistoricalSeasonData up to upsertPlayerSeasonStats: the team row, when
\* the season has one; a season without rows is written at once
TeamStatsWritten(k) ==
  /\ script.tasks[k].pc = "team"
  /\ IF script.tasks[k].outcome = "no rows"
     THEN /\ ScriptStep([script EXCEPT !.tasks[k].pc = "done", !.seasonsWritten = @ + 1])
          /\ UNCHANGED store
     ELSE IF script.poolEnded
     THEN /\ TaskStep(k, [script.tasks[k] EXCEPT !.pc = "done"])
          /\ UNCHANGED store
     ELSE /\ TaskStep(k, [script.tasks[k] EXCEPT !.pc = "begin"])
          /\ store' = TeamSeasonStats82Upserted(store, PuckTeam("revised"), ScriptSeason(k))
  /\ UNCHANGED checkedOut
\* upsertPlayerSeasonStats: pool.connect() and BEGIN
TransactionBegun(k) ==
  /\ script.tasks[k].pc = "begin"
  /\ IF script.poolEnded
     THEN /\ TaskStep(k, [script.tasks[k] EXCEPT !.pc = "done"])
          /\ UNCHANGED checkedOut
     ELSE /\ TaskStep(k, [script.tasks[k] EXCEPT !.pc = "check"])
          /\ checkedOut' = Acquired(checkedOut)
  /\ UNCHANGED store
\* ensurePlayerExists: SELECT id FROM players WHERE team_id, first_name, last_name
PlayerChecked(k) ==
  /\ script.tasks[k].pc = "check"
  /\ LET found == PlayerNamed(PlayersSeen(k), EnsuredName(ScriptPlayer))
     IN TaskStep(k, [script.tasks[k] EXCEPT
          !.found = found, !.pc = IF found = None THEN "maxId" ELSE "update"])
  /\ UNCHANGED <<store, checkedOut>>
\* ensurePlayerExists: SELECT COALESCE(MAX(id), 0) + 1 FROM players
NextIdRead(k) ==
  /\ script.tasks[k].pc = "maxId"
  /\ TaskStep(k, [script.tasks[k] EXCEPT !.nextId = MaxId(PlayersSeen(k)) + 1, !.pc = "insert"])
  /\ UNCHANGED <<store, checkedOut>>
\* ensurePlayerExists: INSERT INTO players (id, ...).  The statement waits for
\* an open transaction that inserted the same id; the id being there, the
\* server rejects it and the transaction block is aborted.
PlayerInserted(k) ==
  /\ script.tasks[k].pc = "insert"
  /\ LET t == script.tasks[k]
         name == EnsuredName(ScriptPlayer)
         held == { o \in TaskIds \ {k} : script.tasks[o].inserted # None }
     IN /\ \A o \in held : script.tasks[o].inserted[1].id # t.nextId
        /\ IF \E j \in 1..Len(store.players) : store.players[j].id = t.nextId
           THEN TaskStep(k, [t EXCEPT !.aborted = TRUE, !.pc = "commit"])
           ELSE TaskStep(k, [t EXCEPT
                  !.inserted = Some([id |-> t.nextId, team_id |-> CAPITALS_TEAM_ID,
                                     first_name |-> name[1], last_name |-> name[2],
                                     position |-> OrElse(ScriptPlayer.position, "F")]),
                  !.pc = "lookup"])
  /\ UNCHANGED <<store, checkedOut>>
\* ensurePlayerExists: UPDATE players SET position of the row found
PlayerUpdated(k) ==
  /\ script.tasks[k].pc = "update"
  /\ TaskStep(k, [script.tasks[k] EXCEPT !.updated = TRUE, !.pc = "lookup"])
  /\ UNCHANGED <<store, checkedOut>>
\* getPlayerIdByName, and upsertPlayerStats when it gave an id
PlayerStatsWritten(k) ==
  /\ script.tasks[k].pc = "lookup"
  /\ LET playerId == PlayerNamed(PlayersSeen(k), LookupName(ScriptPlayer))
     IN TaskStep(k, [script.tasks[k] EXCEPT
          !.playerId = playerId, !.stats = playerId # None, !.pc = "commit"])
  /\ UNCHANGED <<store, checkedOut>>
\* COMMIT (a rollback when the block is aborted), client.release(), and the
\* rest of the callback: seasonsWritten++
TransactionEnded(k) ==
  /\ script.tasks[k].pc = "commit"
  /\ store' = IF script.tasks[k].aborted THEN store
              ELSE TransactionCommitted(store, script.tasks[k], ScriptSeason(k))
  /\ checkedOut' = Released(checkedOut)
  /\ ScriptStep([script EXCEPT
       !.tasks[k] = [@ EXCEPT !.pc = "done", !.inserted = None],
       !.seasonsWritten = @ + 1])

\* ---------------------------------------------------------------------
\* Part 11: the request cache of realNHLAPI
\* ---------------------------------------------------------------------
\* Times are in minutes.
CACHE_DURATION == 2
CacheKeys == {"standings-current", "roster-WSH"}
Payloads == {"first", "revised"}
NoRequest == [pc |-> "idle", key |-> "standings-current", cached |-> None,
              result |-> None, failed |-> FALSE]
NoIntegration == [lastUpdate |-> None, calls |-> 0,
                  last |-> [forceRefresh |-> FALSE, needsUpdate |-> FALSE,
                            requests |-> 0, settled |-> "none"]]
NoApi == [now |-> 0, cache |-> [key \in CacheKeys |-> None],
          requests |-> [r \in 1..MaxRequests |-> NoRequest],
          integration |-> NoIntegration]
RequestIds == 1..MaxRequests

ApiStep(after) ==
  /\ api' = after
  /\ UNCHANGED <<orchVars, storeVars, checkedOut, events, script>>

\* cachedRequest up to its await: the entry of the key is read, and returned
\* at once when it is younger than CACHE_DURATION; otherwise axios.get is issued
cachedRequest(r, key) ==
  /\ api.requests[r].pc # "waiting"
  /\ LET cached == api.cache[key]
         fresh == cached # None /\ api.now - cached[1].timestamp < CACHE_DURATION
     IN ApiStep([api EXCEPT !.requests[r] =
          IF fresh
          THEN [pc |-> "returned", key |-> key, cached |-> cached,
                result |-> Some(cached[1].data), failed |-> FALSE]
          ELSE [pc |-> "waiting", key |-> key, cached |-> cached,
                result |-> None, failed |-> FALSE]])
\* the response arrives: this.cache.set(key, {data, timestamp}); return response.data
ResponseArrived(r, data) ==
  /\ api.requests[r].pc = "waiting"
  /\ ApiStep([api EXCEPT
       !.cache[api.requests[r].key] = Some([data |-> data, timestamp |-> api.now]),
       !.requests[r].pc = "returned",
       !.requests[r].result = Some(data)])
\* the request fails: if (cached) return cached.data; else throw
RequestFailed(r) ==
  /\ api.requests[r].pc = "waiting"
  /\ LET cached == api.requests[r].cached
     IN ApiStep([api EXCEPT
          !.requests[r].failed = TRUE,
          !.requests[r].pc = IF cached # None THEN "returned" ELSE "thrown",
          !.requests[r].result = IF cached # None THEN Some(cached[1].data) ELSE None])
clearCache ==
  /\ \E key \in CacheKeys : api.cache[key] # None
  /\ ApiStep([api EXCEPT !.cache = [key \in CacheKeys |-> None]])
MinutePassed ==
  /\ api.now < MaxClock
  /\ ApiStep([api EXCEPT !.now = @ + 1])

\* ---------------------------------------------------------------------
\* Part 12: the integration service
\* ---------------------------------------------------------------------
updateInterval == 5
IntegrationRequests == 5
\* needsUpdate = forceRefresh || !lastUpdateTime || now - lastUpdateTime > updateInterval
needsUpdate(forceRefresh, lastUpdateTime, now) ==
  \/ forceRefresh
  \/ lastUpdateTime = None
  \/ (lastUpdateTime # None /\ now - OrElse(lastUpdateTime, 0) > updateInterval)
\* the upstream requests of one call: needsUpdate only chooses a log line,
\* the Promise.all of the five requests follows in every case
RequestsIssued(forceRefresh, lastUpdateTime, now) == IntegrationRequests
\* fetchAndIntegrateCapitalsData: the requests, the saves and lastUpdate.set
\* when all succeed, the throw of 'Data integration failed' when one fails
fetchAndIntegrateCapitalsData(forceRefresh, succeeds) ==
  /\ api.integration.calls < MaxIntegrations
  /\ LET lastUpdateTime == api.integration.lastUpdate
         requests == RequestsIssued(forceRefresh, lastUpdateTime, api.now)
         failed == requests > 0 /\ ~succeeds
     IN ApiStep([api EXCEPT !.integration =
          [lastUpdate |-> IF failed THEN lastUpdateTime ELSE Some(api.now),
           calls |-> api.integration.calls + 1,
           last |-> [forceRefresh |-> forceRefresh,
                     needsUpdate |-> needsUpdate(forceRefresh, lastUpdateTime, api.now),
                     requests |-> requests,
                     settled |-> IF failed THEN "rejected" ELSE "resolved"]]])
IntegrationMinutePassed ==
  /\ api.now < MaxIntegrationClock
  /\ ApiStep([api EXCEPT !.now = @ + 1])

InitOrchestrator ==
  /\ variant \in Variants
  /\ isRunning = FALSE
  /\ progress = InitialProgress
  /\ calls = [c \in CallIds |-> IdleCall]
  /\ faultsLeft = MaxFaults
  /\ failures = {}

InitServices ==
  /\ checkedOut = 0
  /\ events = <<>>
  /\ script = NoScript
  /\ api = NoApi

Init == InitOrchestrator /\ InitStore /\ InitServices

InitScenario ==
  /\ InitOrchestrator
  /\ InitServices
  /\ variant = VariantComplete
  /\ store = EmptyStore
  /\ lastOp = NoOp
  /\ opsLeft = MaxScenarioOps

NextScenario ==
  \/ \E outcome \in FetchOutcomes, rev \in Revisions : backfillAllTeams(outcome, rev)
  \/ runSimpleTest
  \/ \E includePlayoffs \in BOOLEAN :
       completeBackfillOffline(SubSeq(AllSeasons, 1, 1), includePlayoffs)
  \/ \E t \in TeamIds, rev \in Revisions : insertTeam(t, rev)
  \/ \E p \in PlayerIds, rev \in Revisions : insertPlayer(p, rev)
  \/ \E g \in GameIds, rev \in Revisions : insertGame(g, rev)

InitStages ==
  /\ InitOrchestrator
  /\ InitServices
  /\ store = TeamsStored(variant, EmptyStore)
  /\ lastOp = NoOp
  /\ opsLeft = MaxStageOps

NextStages ==
  \/ \E season \in SeasonsAggregated, rev \in Revisions :
       backfillAllGamesForSeason(season, rev)
  \/ \E season \in SeasonsAggregated, rev \in Revisions :
       backfillPlayerGameStats(season, rev)
  \/ \E season \in SeasonsAggregated, rev \in Revisions :
       backfillTeamGameStats(season, rev)
  \/ \E season \in SeasonsAggregated : calculateSeasonStats(season)
  \/ \E season \in SeasonsAggregated : calculatePlayerSeasonStats(season)
  \/ \E season \in SeasonsAggregated : calculateTeamSeasonStats(season)
  \/ \E season \in SeasonsAggregated, rev \in Revisions : seasonStages(season, rev)

InitSeason ==
  /\ InitOrchestrator
  /\ InitServices
  /\ store = StoreAfterGamesStage(variant)
  /\ lastOp = NoOp
  /\ opsLeft = MaxSeasonOps

Next ==
  \/ \E c \in CallIds, seasons \in SeasonLists, includePlayoffs \in BOOLEAN :
       startCompleteBackfill(c, seasons, includePlayoffs)
  \/ \E c \in CallIds : startTestBackfill(c, SubSeq(AllSeasons, 1, 1))
  \/ stopBackfill
  \/ \E c \in CallIds : StageBegin(c)
  \/ \E c \in CallIds, outcome \in {"ok", "silent", "fallback", "throw"} : StageEnd(c, outcome)
  \/ \E c \in CallIds : GenerateReport(c)
  \/ \E c \in CallIds : Settle(c)

Spec == Init /\ [][Next]_vars

\* A caller that awaits each start call before it makes the next one, as the
\* scripts do, and never calls stopBackfill.
NoneActive == \A d \in CallIds : ~Active(d)

AwaitedStartComplete(c, seasons, includePlayoffs) ==
  NoneActive /\ startCompleteBackfill(c, seasons, includePlayoffs)

AwaitedStartTest(c, seasons) ==
  NoneActive /\ startTestBackfill(c, seasons)

NextAwaited ==
  \/ \E c \in CallIds, seasons \in SeasonLists, includePlayoffs \in BOOLEAN :
       AwaitedStartComplete(c, seasons, includePlayoffs)
  \/ \E c \in CallIds : AwaitedStartTest(c, SubSeq(AllSeasons, 1, 1))
  \/ \E c \in CallIds : StageBegin(c)
  \/ \E c \in CallIds, outcome \in {"ok", "silent", "fallback", "throw"} : StageEnd(c, outcome)
  \/ \E c \in CallIds : GenerateReport(c)
  \/ \E c \in CallIds : Settle(c)

SpecAwaited == Init /\ [][NextAwaited]_vars

\* The insert handlers called one after another on the store of one service.
SpecStore == Init /\ [][NextStore]_vars

\* The per-game stages and the season aggregator, run and re-run in any order
\* on the store of a first run's teams and games stages.
SpecSeason == InitSeason /\ [][NextSeason]_vars

\* The teams stage, the test backfill and the complete backfill without
\* network, with single entity inserts, in any order from an empty store.
SpecScenario == InitScenario /\ [][NextScenario]_vars

\* Whole stages of a season, run and re-run in any order after the teams stage.
SpecStages == InitStages /\ [][NextStages]_vars

\* The play-by-play payloads of a game processed one after another.
InitShots ==
  /\ InitOrchestrator
  /\ InitServices
  /\ store = EmptyStore
  /\ lastOp = NoOp
  /\ opsLeft = MaxShotOps
NextShots ==
  \/ \E playByPlay \in PlayByPlays : processShotData(1, playByPlay)
SpecShots == InitShots /\ [][NextShots]_vars

\* The script runCompleteBackfillWithDB: the loop of the service and the
\* callbacks it has started, in any relative timing.
InitScript ==
  /\ InitOrchestrator
  /\ checkedOut = 0
  /\ events = <<>>
  /\ \E n \in 1..MaxScriptSeasons, force \in BOOLEAN : script = StartedScript(n, force)
  /\ store \in {EmptyStore,
                TeamSeasonStats82Upserted(EmptyStore, PuckTeam("first"), ScriptSeason(1))}
  /\ lastOp = NoOp
  /\ opsLeft = 0
  /\ api = NoApi
NextScript ==
  \/ \E outcome \in SeasonOutcomes : SeasonFetched(outcome)
  \/ DelayElapsed
  \/ SummaryPrinted
  \/ PoolClosed
  \/ \E k \in TaskIds : SeasonExistsChecked(k)
  \/ \E k \in TaskIds : TeamStatsWritten(k)
  \/ \E k \in TaskIds : TransactionBegun(k)
  \/ \E k \in TaskIds : PlayerChecked(k)
  \/ \E k \in TaskIds : NextIdRead(k)
  \/ \E k \in TaskIds : PlayerInserted(k)
  \/ \E k \in TaskIds : PlayerUpdated(k)
  \/ \E k \in TaskIds : PlayerStatsWritten(k)
  \/ \E k \in TaskIds : TransactionEnded(k)
SpecScript == InitScript /\ [][NextScript]_vars

\* Calls of cachedRequest, overlapping or not, as the clock runs.
InitApi ==
  /\ InitOrchestrator
  /\ InitServices
  /\ store = EmptyStore
  /\ lastOp = NoOp
  /\ opsLeft = 0
NextApi ==
  \/ \E r \in RequestIds, key \in CacheKeys : cachedRequest(r, key)
  \/ \E r \in RequestIds, data \in Payloads : ResponseArrived(r, data)
  \/ \E r \in RequestIds : RequestFailed(r)
  \/ clearCache
  \/ MinutePassed
SpecApi == InitApi /\ [][NextApi]_vars

\* Calls of fetchAndIntegrateCapitalsData, each awaited, as the clock runs.
NextIntegration ==
  \/ \E forceRefresh \in BOOLEAN, succeeds \in BOOLEAN :
       fetchAndIntegrateCapitalsData(forceRefresh, succeeds)
  \/ IntegrationMinutePassed
SpecIntegration == InitApi /\ [][NextIntegration]_vars

\* The row mappers applied to the texts an upstream time field can hold.
InitParse ==
  /\ InitOrchestrator
  /\ InitServices
  /\ store = EmptyStore
  /\ lastOp = NoOp
  /\ opsLeft = MaxParseOps
NextParse ==
  \/ \E text \in TimeTexts : mapTimeOnIce(1, 1, text)
  \/ \E text \in TimeTexts : insertShotData(1, text)
SpecParse == InitParse /\ [][NextParse]_vars

\* The units of work of the executors, each with the failure the pool or the
\* server answers it with.
InitDatabase ==
  /\ InitOrchestrator
  /\ InitServices
  /\ variant = VariantComplete
  /\ store = EmptyStore
  /\ lastOp = NoOp
  /\ opsLeft = MaxDbOps
NextDatabase ==
  \/ \E failure \in {NoFailure, ConnectFails, QueryFails} : executeQuery(failure)
  \/ \E failure \in {NoFailure, ConnectFails, QueryFails} : testConnection(failure)
  \/ \E rev \in Revisions, failure \in {NoFailure, ConnectFails, QueryFails} :
       upsertTeamSeasonStats(rev, failure)
  \/ \E playerData \in Batches(MaxBatch) : \E failure \in BatchFailures(playerData) :
       upsertPlayerSeasonStats(playerData, failure)
SpecDatabase == InitDatabase /\ [][NextDatabase]_vars

\* The per-game loop of a stage over the stored games of a season, each
\* game's fetch and processing ending in any of the ways it can.
InitLoops ==
  /\ InitOrchestrator
  /\ InitServices
  /\ store = EmptyStore
  /\ lastOp = NoOp
  /\ opsLeft = MaxLoops
NextLoops ==
  \E stage \in PerGameStages, outcomes \in OutcomeLists(MaxLoopGames) :
    perGameLoop(stage, outcomes)
SpecLoops == InitLoops /\ [][NextLoops]_vars

\* backfillHistoricalData in a year with one to MaxHistoricalSeasons seasons
\* behind it, each season's download ending in any of the ways it can, with
\* and without each callback.
InitHistorical ==
  /\ InitOrchestrator
  /\ InitServices
  /\ store = EmptyStore
  /\ lastOp = NoOp
  /\ opsLeft = MaxHistoricalRuns
NextHistorical ==
  \E n \in 1..MaxHistoricalSeasons, onProgress \in BOOLEAN, onSeasonComplete \in BOOLEAN :
    \E outcomes \in SeasonOutcomeLists(n) :
      backfillHistoricalData(NHL_SEASONS_START + n, outcomes, onProgress, onSeasonComplete)
SpecHistorical == InitHistorical /\ [][NextHistorical]_vars

\* ------------------------------------------------------------------------
\* Properties of the orchestrator
\* ------------------------------------------------------------------------
ErrorNames(stage) == \E k \in 1..Len(progress.errors) : progress.errors[k][1] = stage
CompletedNames(stage, season) ==
  \E k \in 1..Len(progress.completed) : progress.completed[k] = <<stage, season>>
CompleteCall(c) == calls[c].kind = "complete" /\ calls[c].status # "conflict"

\* C1: while an accepted start call has not settled, any further start call
\* is rejected with 'Backfill already in progress' and changes nothing: not the
\* running flag, not the Progress record, no fetch and no write (no failure of
\* one either).
C1_StartWhileActiveRejected ==
  [][\A c \in CallIds :
       (calls[c].status = "idle" /\ calls'[c].status # "idle"
          /\ \E d \in CallIds : Active(d))
       => /\ calls'[c].status = "conflict"
          /\ isRunning' = isRunning
          /\ progress' = progress
          /\ failures' = failures]_vars

\* C2: when a stage other than teams throws, the error is appended to
\* Progress.errors naming the stage, every later stage of the plan still
\* executes, the later stages that succeed are in Progress.completed, and the
\* start call resolves.
C2_StageThrowDoesNotAbort ==
  \A c \in CallIds :
    (CompleteCall(c) /\ Settled(c)) =>
      \A i \in 1..Len(calls[c].trace) :
        LET t == calls[c].trace IN
        (t[i][1] # "teams" /\ t[i][3] = "throw") =>
          /\ ErrorNames(t[i][1])
          /\ Len(t) = Len(ThePlan(c))
          /\ \A j \in (i + 1)..Len(t) : t[j][3] = "ok" => CompletedNames(t[j][1], t[j][2])
          /\ calls[c].status = "resolved"

\* The place of a stage in the order the claim gives, and in the order of each
\* service file (aggregates are one stage in the complete variant, two in the
\* data variant).
ClaimedRank(stage) ==
  CASE stage = "players" -> 1
    [] stage = "games" -> 2
    [] stage = "playerGameStats" -> 3
    [] stage = "goalieGameStats" -> 4
    [] stage = "teamGameStats" -> 5
    [] stage = "shots" -> 6
    [] stage \in {"seasonStats", "playerSeasonStats"} -> 7
    [] stage = "teamSeasonStats" -> 8
    [] stage = "advancedStats" -> 9
    [] OTHER -> 0

CompleteVariantRank(stage) ==
  CASE stage = "players" -> 1
    [] stage = "games" -> 2
    [] stage = "playerGameStats" -> 3
    [] stage = "teamGameStats" -> 4
    [] stage = "goalieGameStats" -> 5
    [] stage = "seasonStats" -> 6
    [] stage = "shots" -> 7
    [] stage = "advancedStats" -> 8
    [] OTHER -> 0

TeamsOnceAndFirst(t) ==
  Len(t) > 0 => /\ t[1][1] = "teams"
                /\ \A i \in 2..Len(t) : t[i][1] # "teams"

\* Of two stages executed for the same season, the one executed first is the
\* one of lower rank.
SeasonOrder(t, w) ==
  \A i, j \in 1..Len(t) :
    (i < j /\ t[i][2] = t[j][2] /\ t[i][2] # NoSeason)
      => IF w = "claimed" THEN ClaimedRank(t[i][1]) < ClaimedRank(t[j][1])
         ELSE CompleteVariantRank(t[i][1]) < CompleteVariantRank(t[j][1])

\* C3 as stated: in every run of startCompleteBackfill teams executes once
\* and first, and per season the stages execute in the order players, games,
\* player-game-stats, goalie-game-stats, team-game-stats, shot-events,
\* aggregates (player then team), advanced metrics.
C3_ClaimedStageOrder ==
  \A c \in CallIds :
    CompleteCall(c) =>
      TeamsOnceAndFirst(calls[c].trace) /\ SeasonOrder(calls[c].trace, "claimed")

\* C3 amended: teams executes once and first; per season the stages execute
\* in the claimed order in dataBackfillService.ts, and in the order players,
\* games, player-game-stats, team-game-stats, goalie-game-stats, aggregates,
\* shot-events, advanced metrics in completeDataBackfillService.ts.
C3_StageOrderPerVariant ==
  \A c \in CallIds :
    CompleteCall(c) =>
      /\ TeamsOnceAndFirst(calls[c].trace)
      /\ SeasonOrder(calls[c].trace,
                     IF variant = VariantData THEN "claimed" ELSE "complete")

\* A run of the complete variant over one season that executed all nine of its
\* stages and resolved.
C3_Witness ==
  \E c \in CallIds :
    /\ variant = VariantComplete /\ CompleteCall(c)
    /\ calls[c].status = "resolved"
    /\ Len(calls[c].seasons) = 1
    /\ Len(calls[c].trace) = 9

\* C4: once stopBackfill() was called during a run, the stage then executing
\* finishes and no further stage of that run is started.
C4_NoStageAfterStop ==
  \A c \in CallIds :
    calls[c].stopAt # -1 => StagesBegun(c) = calls[c].stopAt

\* C5: an accepted invocation that has settled (it ran to the end, with or
\* without stage errors, or the teams stage failed fatally) has generated its
\* final report.
C5_ReportBeforeSettling ==
  \A c \in CallIds :
    (/\ CompleteCall(c) /\ Settled(c)
     /\ \/ calls[c].status = "resolved"
        \/ calls[c].trace[Len(calls[c].trace)][1] = "teams")
      => calls[c].report.generated

\* C6: the final report of a run over at least one season lists a row count
\* for each of the nine tables and every entry of the Progress error list
\* accumulated when it is written.
C6_ReportListsAllTablesAndErrors ==
  \A c \in CallIds :
    (CompleteCall(c) /\ Len(calls[c].seasons) > 0 /\ calls[c].report.generated) =>
      /\ calls[c].report.tables = NineTables
      /\ calls[c].report.errors = calls[c].report.accumulated

\* C7: every failed fetch or write inside a stage of a run (a failed game in
\* the per-game loop and a team fetch replaced by the fallback included) has
\* an entry in Progress.errors that names the stage.
C7_NoSilentStageFailure ==
  \A f \in failures : CompleteCall(f[1]) => ErrorNames(f[2])

\* ------------------------------------------------------------------------
\* Properties of the insert handlers
\* ------------------------------------------------------------------------
PlayerGameStatHandlers == {"insertPlayerGameStat", "insertPlayerGameStats"}
TeamGameStatHandlers == {"insertTeamGameStat", "insertTeamGameStats"}
Called == opsLeft' < opsLeft

\* C8: whatever handler calls were made, player_game_stats holds at most
\* one row for each (game_id, player_id) pair.
C8_OnePlayerGameStatRowPerKey ==
  \A i, j \in 1..Len(store.player_game_stats) :
    (/\ store.player_game_stats[i].game_id = store.player_game_stats[j].game_id
     /\ store.player_game_stats[i].player_id = store.player_game_stats[j].player_id)
      => i = j

\* The stat line of one (game, player) pair written by two identical handler
\* calls in a row, the table holding the one row.
C8_Witness ==
  /\ lastOp.name \in PlayerGameStatHandlers
  /\ lastOp.repeats = 1
  /\ Len(store.player_game_stats) = 1

\* C9: after N >= 2 identical calls of an insert handler (team, player,
\* game, player/goalie/team game stat) every table has the rows, in number
\* and in column values, it had after the first of them.
C9_RepeatedUpsertIsIdempotent ==
  lastOp.repeats >= 1 => store = lastOp.afterFirst

\* The same call made three times in a row.
C9_Witness ==
  /\ lastOp.name # "none"
  /\ lastOp.repeats = 2
  /\ store # EmptyStore

\* The row a per-game stat handler call builds from its arguments, the table
\* it goes to and the key of that table.
StatRow(op) ==
  CASE op.name = "insertPlayerGameStat" ->
         PlayerGameStatValues(op.args[1], op.args[2], 1, SkaterStats(op.args[3]))
    [] op.name = "insertPlayerGameStats" ->
         PlayerGameStatsValues(op.args[1], op.args[2], 1, SkaterStats(op.args[3]))
    [] op.name = "insertTeamGameStat" ->
         TeamGameStatValues(op.args[1], op.args[2],
                            op.args[2] = Game(op.args[1], op.args[3]).homeTeam.id,
                            TeamData(op.args[3]))
    [] op.name = "insertTeamGameStats" ->
         TeamGameStatsValues(op.args[1], op.args[2],
                             op.args[2] = Game(op.args[1], op.args[3]).homeTeam.id,
                             TeamStats(op.args[3]))
StatTable(st, op) ==
  IF op.name \in PlayerGameStatHandlers THEN st.player_game_stats ELSE st.team_game_stats
StatKey(op) ==
  IF op.name \in PlayerGameStatHandlers THEN {"game_id", "player_id"}
  ELSE {"game_id", "team_id"}

\* C10: when a per-game stat handler is called for a key that has a row,
\* afterwards that row holds the values of the call, the rows of other keys
\* are as they were, and the table has as many rows as before.
C10_ReprocessingUpdatesInPlace ==
  [][(/\ Called
      /\ lastOp'.name \in PlayerGameStatHandlers \cup TeamGameStatHandlers
      /\ Count(StatTable(store, lastOp'), StatKey(lastOp'), StatRow(lastOp')) > 0)
     => LET before == StatTable(store, lastOp')
            after == StatTable(store', lastOp')
            new == StatRow(lastOp')
        IN /\ Len(after) = Len(before)
           /\ \A i \in 1..Len(before) :
                IF Matches(before[i], StatKey(lastOp'), new)
                THEN after[i] = new
                ELSE after[i] = before[i]]_vars

\* The row a team, player or game handler call builds from its arguments, and
\* the table it goes to.
EntityHandlers == {"insertTeam", "insertCompleteTeamData", "insertPlayer",
                   "insertCompletePlayerData", "insertGame", "insertCompleteGameData"}
EntityRow(op) ==
  CASE op.name = "insertTeam" -> TeamValues(Standing(op.args[1], op.args[2]))
    [] op.name = "insertCompleteTeamData" ->
         CompleteTeamValues(Standing(op.args[1], op.args[2]), Team(op.args[1], op.args[2]))
    [] op.name = "insertPlayer" -> PlayerValues(Player(op.args[1], op.args[2]))
    [] op.name = "insertCompletePlayerData" ->
         CompletePlayerValues(Player(op.args[1], op.args[2]),
                              PlayerDetail(op.args[1], op.args[2]))
    [] op.name = "insertGame" -> GameValues(Game(op.args[1], op.args[2]), SeasonOf(op.args[1]))
    [] op.name = "insertCompleteGameData" ->
         CompleteGameValues(Game(op.args[1], op.args[2]), SeasonOf(op.args[1]))
EntityTable(st, op) ==
  IF op.name \in {"insertTeam", "insertCompleteTeamData"} THEN st.teams
  ELSE IF op.name \in {"insertPlayer", "insertCompletePlayerData"} THEN st.players
  ELSE st.games

\* C11: when a team, player or game handler is called for an id that has a
\* row, afterwards every column of that row holds the value of the call (a
\* changed city, name, date, team or venue included).
C11_UpsertOverwritesEveryColumn ==
  [][(/\ Called
      /\ lastOp'.name \in EntityHandlers
      /\ Count(EntityTable(store, lastOp'), {"id"}, EntityRow(lastOp')) > 0)
     => \A i \in 1..Len(EntityTable(store', lastOp')) :
          Matches(EntityTable(store', lastOp')[i], {"id"}, EntityRow(lastOp'))
            => EntityTable(store', lastOp')[i] = EntityRow(lastOp')]_vars

PlayerAggregators == {"calculateSeasonStats", "calculatePlayerSeasonStats"}
SummedColumns == {"goals", "assists", "points", "shots", "penalty_minutes"}
\* the season row of a (player, team) group holds the sums of the group's rows
SeasonRowHoldsSums(st, season, grp) ==
  \E i \in 1..Len(st.player_season_stats) :
    LET row == st.player_season_stats[i]
    IN /\ row.player_id = grp[1] /\ row.season = season /\ row.team_id = grp[2]
       /\ \A col \in SummedColumns : row[col] = Sum(GroupRows(st, season, grp), col)

\* C12: whenever the season aggregate of a season has been computed, a first
\* time or again after more per-game rows arrived, every player with a
\* per-game row in that season has a season row whose goals, assists, points,
\* shots and penalty minutes are the sums over the player's per-game rows.
C12_SeasonRowEqualsSums ==
  [][(Called /\ lastOp'.name \in PlayerAggregators)
       => \A grp \in PlayerGroups(store', lastOp'.args[1]) :
            SeasonRowHoldsSums(store', lastOp'.args[1], grp)]_vars

SeasonTotals(st) == <<st.player_season_stats, st.team_season_stats>>

\* C13: with the upstream data unchanged, running the games, per-game stat
\* and season-aggregate stages of a season again, any number of times, leaves
\* every player-season and team-season row as the first pass left it.
C13_RepeatedPassKeepsSeasonTotals ==
  (lastOp.name = "seasonStages" /\ lastOp.repeats >= 1)
    => SeasonTotals(store) = SeasonTotals(lastOp.afterFirst)
\* a third pass in a row over a season in which a player has two games and a
\* team has a season row
C13_Witness ==
  /\ lastOp.name = "seasonStages"
  /\ lastOp.repeats = 2
  /\ \E i \in 1..Len(store.player_season_stats) :
       store.player_season_stats[i].games_played = 2
  /\ store.team_season_stats # <<>>

\* the fetch outcomes that give the teams stage no team row
ZeroRowOutcomes == FetchFailures \cup {"empty standings list"}
FallbackRowsExactly(table) ==
  /\ Len(table) = 32
  /\ { <<table[i].id, table[i].abbreviation>> : i \in 1..Len(table) }
       = { <<FallbackTeams[i].id, FallbackTeams[i].abbrev>> : i \in 1..Len(FallbackTeams) }
  /\ \E i \in 1..Len(table) : table[i].id = 15 /\ table[i].abbreviation = "WSH"

\* C14: when the teams stage runs on an empty teams table and the live fetch
\* gives no team row (network error, unparsable body, missing or empty
\* standings list), the table afterwards holds exactly the 32 fallback rows,
\* id 15 with abbreviation WSH among them.
C14_FallbackOnZeroTeamRows ==
  [][(/\ Called
      /\ lastOp'.name = "backfillAllTeams"
      /\ lastOp'.args[1] \in ZeroRowOutcomes
      /\ store.teams = <<>>)
     => FallbackRowsExactly(store'.teams)]_vars

TeamsStages == {"teams", "fallbackTeams"}
PerGameStatStages == {"playerGameStats", "goalieGameStats", "teamGameStats"}
AggregateStages == {"seasonStats", "playerSeasonStats", "teamSeasonStats"}
TeamIdStages ==
  {"players", "games", "playerGameStats", "goalieGameStats", "teamGameStats", "shots",
   "seasonStats", "playerSeasonStats", "teamSeasonStats",
   "fallbackPlayers", "sampleGames", "sampleTeamStats"}
\* the stages a run has started, in order; all but a stage still executing
\* have finished
Begun(c) ==
  [i \in 1..StagesBegun(c) |->
     IF i <= Len(calls[c].trace) THEN <<calls[c].trace[i][1], calls[c].trace[i][2]>>
     ELSE ThePlan(c)[calls[c].pc]]

\* C15: in every run, when the season-aggregate stage of a season starts, the
\* player-game-stats, goalie-game-stats and team-game-stats stages of that
\* season have finished; and when a stage that writes rows with a team id
\* starts, the teams stage has finished.
C15_StatsBeforeAggregatesTeamsBeforeAll ==
  \A c \in CallIds : \A k \in 1..StagesBegun(c) :
    /\ Begun(c)[k][1] \in AggregateStages
         => \A stage \in PerGameStatStages :
              \E i \in 1..(k - 1) : Begun(c)[i] = <<stage, Begun(c)[k][2]>>
    /\ Begun(c)[k][1] \in TeamIdStages
         => \E i \in 1..(k - 1) : Begun(c)[i][1] \in TeamsStages
\* A run of the data variant over one season that executed all ten of its
\* stages, the two aggregates among them, and resolved.
C15_Witness ==
  \E c \in CallIds :
    /\ variant = VariantData /\ CompleteCall(c)
    /\ calls[c].status = "resolved"
    /\ Len(calls[c].trace) = 10
    /\ \E k \in 1..10 : calls[c].trace[k][1] = "teamSeasonStats"

ScenarioCounts(st) == Len(st.teams) = 32 /\ Len(st.players) = 10 /\ Len(st.games) = 5
SampleGameStored(st) ==
  \E i \in 1..Len(st.games) :
    /\ st.games[i].id = 2024020500
    /\ st.games[i].home_team_id = 15 /\ st.games[i].away_team_id = 3
    /\ st.games[i].home_score = 4 /\ st.games[i].away_score = 2
\* the store the test backfill leaves when it starts on an empty one
ScenarioAStore == TestBackfillSteps(EmptyStore, SubSeq(AllSeasons, 1, 1))

SampleGameStats(st) == SelectSeq(st.team_game_stats, LAMBDA r : r.game_id = 2024020500)
ShootingPercentageHeld(st, season, grp) ==
  LET goals == Sum(GroupRows(st, season, grp), "goals")
      shots == Sum(GroupRows(st, season, grp), "shots")
  IN \E i \in 1..Len(st.player_season_stats) :
       LET row == st.player_season_stats[i]
       IN /\ row.player_id = grp[1] /\ row.season = season /\ row.team_id = grp[2]
          /\ "shooting_percentage" \in DOMAIN row
          /\ row.shooting_percentage
               = (IF shots = 0 THEN Ratio(0, 1) ELSE Ratio(goals * 100, shots))

\* C19: every player-season row the aggregator produces holds shooting
\* percentage 0 when the summed shots are 0, and goals / shots x 100 when
\* they are greater than 0.
C19_ShootingPercentageOfSums ==
  [][(Called /\ lastOp'.name \in PlayerAggregators)
       => \A grp \in PlayerGroups(store', lastOp'.args[1]) :
            ShootingPercentageHeld(store', lastOp'.args[1], grp)]_vars

\* C20: every team-season row the aggregator produces has points equal to
\* twice its wins plus its overtime losses, and goal differential equal to
\* goals for minus goals against.
C20_TeamPointsAndGoalDifferential ==
  \A i \in 1..Len(store.team_season_stats) :
    LET row == store.team_season_stats[i]
    IN /\ "overtime_losses" \in DOMAIN row
       /\ row.points = 2 * row.wins + row.overtime_losses
       /\ row.goal_differential = row.goals_for - row.goals_against

\* ------------------------------------------------------------------------
\* Properties of the aggregate rows, the executor and the callbacks
\* ------------------------------------------------------------------------
SeasonAggregators ==
  {"calculateSeasonStats", "calculatePlayerSeasonStats", "calculateTeamSeasonStats",
   "seasonStages"}
\* the row is in the table after the step and was not there, the same, before
WrittenBy(before, after, row) ==
  (\E i \in 1..Len(after) : after[i] = row) /\ ~(\E i \in 1..Len(before) : before[i] = row)
PlayerQualifies(st, season, row) ==
  GroupRows(st, season, <<row.player_id, row.team_id>>) # <<>>
TeamQualifies(st, season, row) == TeamSeasonRows(st, row.team_id, season) # <<>>
NoZeroRow(st) ==
  /\ \A i \in 1..Len(st.player_season_stats) : st.player_season_stats[i].games_played >= 1
  /\ \A i \in 1..Len(st.team_season_stats) : st.team_season_stats[i].games_played >= 1

\* C21 as stated: after an aggregate step for season S every row of S in the
\* aggregate tables that step covers has a qualifying per-game row in S.
C21_AggregateTablesHoldOnlyQualifying ==
  (lastOp.name \in SeasonAggregators) =>
    LET season == lastOp.args[1]
    IN /\ NoZeroRow(store)
       /\ lastOp.name # "calculateTeamSeasonStats" =>
            \A row \in Range(store.player_season_stats) :
              row.season = season => PlayerQualifies(store, season, row)
       /\ lastOp.name # "calculatePlayerSeasonStats" =>
            \A row \in Range(store.team_season_stats) :
              row.season = season => TeamQualifies(store, season, row)
\* C21: a step of the season aggregate for season S writes an aggregate row
\* only for a player or team that has at least one qualifying per-game row in
\* S, the row is of season S, and no aggregate row has games_played = 0.
C21_AggregateRowsOnlyForQualifying ==
  [][(Called /\ lastOp'.name \in SeasonAggregators) =>
       LET season == lastOp'.args[1]
       IN /\ NoZeroRow(store')
          /\ \A row \in Range(store'.player_season_stats) :
               WrittenBy(store.player_season_stats, store'.player_season_stats, row)
                 => row.season = season /\ PlayerQualifies(store', season, row)
          /\ \A row \in Range(store'.team_season_stats) :
               WrittenBy(store.team_season_stats, store'.team_season_stats, row)
                 => row.season = season /\ TeamQualifies(store', season, row)]_vars
\* An aggregate step for a season in which a stored team has no qualifying
\* game has left that team without a row, while a row of another season is held.
C21_Witness ==
  /\ lastOp.name \in SeasonAggregators
  /\ store.team_season_stats # <<>>
  /\ \E i \in 1..Len(store.teams) :
       /\ TeamSeasonRows(store, store.teams[i].id, lastOp.args[1]) = <<>>
       /\ \A k \in 1..Len(store.team_season_stats) :
            ~(store.team_season_stats[k].team_id = store.teams[i].id
              /\ store.team_season_stats[k].season = lastOp.args[1])

TimeValuesWritten(st) ==
  { r.time_on_ice_seconds : r \in Range(st.player_game_stats) }
    \cup { r.time_remaining_seconds : r \in Range(st.shots) }
\* C22: every time value a row mapper writes is a finite number, never NaN,
\* whatever text the upstream field holds.
C22_NoNaNWritten ==
  \A x \in TimeValuesWritten(store) : x # NaN

\* C23: no connection stays checked out once a unit of work has settled,
\* whether its statements succeeded or failed.
C23_NoConnectionLeftCheckedOut ==
  checkedOut = 0

BatchFailed == lastOp.name = "upsertPlayerSeasonStats" /\ lastOp.args[2] # NoFailure
IsFetch(e) == e[1] = "fetch"
\* C25: between any two consecutive fetches of a per-game loop the delay of
\* the stage has elapsed, also when the earlier game's fetch or processing threw.
C25_DelayBetweenConsecutiveFetches ==
  lastOp.name = "perGameLoop" =>
    \A i, j \in 1..Len(events) :
      (i < j /\ IsFetch(events[i]) /\ IsFetch(events[j])
         /\ \A k \in (i + 1)..(j - 1) : ~IsFetch(events[k]))
        => \E k \in (i + 1)..(j - 1) :
             events[k] = <<"delay", StageDelay(variant, lastOp.args[1])>>

EventsNamed(name) == SelectSeq(events, LAMBDA e : e[1] = name)
RatioAtMost(a, b) == a[1] * b[2] <= b[1] * a[2]
HistoricalRun(onProgress, onSeasonComplete) ==
  /\ lastOp.name = "backfillHistoricalData"
  /\ lastOp.args[3] = onProgress
  /\ lastOp.args[4] = onSeasonComplete
\* the seasons of the run whose fetch gave data, in season order
RECURSIVE SeasonsWithData(_, _, _)
SeasonsWithData(seasons, outcomes, i) ==
  IF i > Len(seasons) THEN <<>>
  ELSE (IF outcomes[i] # "null" THEN <<seasons[i]>> ELSE <<>>)
         \o SeasonsWithData(seasons, outcomes, i + 1)
\* C26: over N seasons onProgress is called N + 1 times, with completedSeasons
\* 0, 1, ..., N in that order, progress never decreasing and 100 in the last
\* call; onSeasonComplete is called once for each season whose fetch gave
\* data, in season order, after that season was cached and before the fetch
\* of any later season.
C26_CallbacksInOrder ==
  HistoricalRun(TRUE, TRUE) =>
    LET seasons == generateSeasons(lastOp.args[1])
        n == Len(seasons)
        progressCalls == EventsNamed("onProgress")
        completes == EventsNamed("onSeasonComplete")
    IN /\ Len(progressCalls) = n + 1
       /\ \A k \in 1..(n + 1) : progressCalls[k][2] = k - 1
       /\ \A k \in 1..n : RatioAtMost(progressCalls[k][3], progressCalls[k + 1][3])
       /\ RatioAtMost(progressCalls[n + 1][3], Ratio(100, 1))
       /\ RatioAtMost(Ratio(100, 1), progressCalls[n + 1][3])
       /\ [k \in 1..Len(completes) |-> completes[k][2]]
            = SeasonsWithData(seasons, lastOp.args[2], 1)
       /\ \A j \in 1..Len(events) :
            events[j][1] = "onSeasonComplete" =>
              /\ \E c \in 1..(j - 1) : events[c] = <<"cache", events[j][2]>>
              /\ \A f \in 1..Len(events) :
                   (events[f][1] = "fetch" /\ events[f][2] > events[j][2]) => f > j
\* A run over at least two seasons with both callbacks, in which one season
\* gave data and a later one gave null.
C26_Witness ==
  /\ HistoricalRun(TRUE, TRUE)
  /\ Len(lastOp.args[2]) >= 2
  /\ lastOp.args[2][1] = "data"
  /\ lastOp.args[2][2] = "null"
  /\ Len(EventsNamed("onSeasonComplete")) >= 1

\* C27: isBackfillRunning() is true exactly while an accepted start call has
\* not settled.
C27_RunningIffUnsettled ==
  isRunning <=> \E c \in CallIds : Active(c)

Accepted(c) == calls[c].status = "idle" /\ calls'[c].status = "active"
\* C28: an accepted start call begins with the progress counter at 0 and with
\* empty completed and error lists, whatever an earlier run on the instance
\* left in the Progress record.
C28_ProgressStartsAfresh ==
  [][\A c \in CallIds :
       Accepted(c) => /\ progress'.progress = 0
                      /\ progress'.completed = <<>>
                      /\ progress'.errors = <<>>]_vars

\* The first start call of the instance is a complete backfill and no later
\* call has been made: the run on a fresh instance.
FreshCompleteRun ==
  /\ calls[1].kind = "complete"
  /\ calls[1].status \in {"active", "resolved", "rejected"}
  /\ \A d \in CallIds : d > 1 => calls[d].status = "idle"

\* C29: in a complete backfill on a fresh instance the progress counter is the
\* number of stages begun, never exceeds totalSteps, and equals totalSteps once
\* the run has resolved, for every season list and playoffs flag.
C29_CounterReachesTotalSteps ==
  FreshCompleteRun =>
    /\ progress.progress = StagesBegun(1)
    /\ progress.progress <= progress.totalSteps
    /\ calls[1].status = "resolved" => progress.progress = progress.totalSteps

LostWithinThree(r, g) == Lost(r, g) /\ g.period <= 3
LostAfterThree(r, g) == Lost(r, g) /\ g.period > 3
Tied(r, g) == g.home_score = g.away_score
\* the row of team t and the season counts each game of the team once
TeamRecordHeld(st, season, t) ==
  LET rows == TeamSeasonRows(st, t, season)
  IN rows # <<>> =>
       \E i \in 1..Len(st.team_season_stats) :
         LET row == st.team_season_stats[i]
         IN /\ row.team_id = t /\ row.season = season
            /\ row.wins = CountWhere(rows, st, Won)
            /\ row.losses = CountWhere(rows, st, LostWithinThree)
            /\ row.overtime_losses = CountWhere(rows, st, LostAfterThree)
            /\ CountWhere(rows, st, Tied) = 0
                 => row.wins + row.losses + row.overtime_losses = row.games_played

\* C30: every team-season row the data variant's aggregator produces counts
\* each lost final game in exactly one of losses (period 3 or earlier) and
\* overtime_losses (later than period 3) and each won game only in wins, so
\* that wins + losses + overtime_losses = games_played when no game is tied.
C30_EachGameCountedOnce ==
  [][(Called /\ variant = VariantData
        /\ lastOp'.name \in {"calculateTeamSeasonStats", "seasonStages"})
       => \A t \in TeamIds : TeamRecordHeld(store', lastOp'.args[1], t)]_vars

\* ------------------------------------------------------------------------
\* Properties of the game rows, the shot rows and the caches
\* ------------------------------------------------------------------------
GameStates == {"Scheduled", "Live", "Final"}
\* C31: every row of the games table has game_state Scheduled, Live or Final,
\* whatever state value the schedule delivered for the game.
C31_GameStateIsOneOfThree ==
  \A i \in 1..Len(store.games) : store.games[i].game_state \in GameStates

ShotsOfGame(st, g) == SelectSeq(st.shots, LAMBDA r : r.game_id = g)
\* C32: processing the play-by-play of a game again, the payload unchanged,
\* leaves the number of shot rows of the game as it was.
C32_RerunKeepsShotCount ==
  [][(Called /\ lastOp'.name = "processShotData" /\ lastOp'.repeats > 0)
       => Len(ShotsOfGame(store', lastOp'.args[1]))
            = Len(ShotsOfGame(store, lastOp'.args[1]))]_vars

\* ------------------------------------------------------------------------
\* Properties of the historical backfill script
\* ------------------------------------------------------------------------
Resolved == script.pc \in {"resolved", "summary", "closed"}
\* C33: once backfillHistoricalData has resolved, every season callback it
\* started has finished, so none is still writing when the summary is printed
\* and the pool is closed.
C33_CallbacksFinishedWhenResolved ==
  Resolved => \A k \in TaskIds : TaskDone(k)

ScriptFinished == script.pc = "closed" /\ \A k \in TaskIds : TaskDone(k)
\* C34: when the script and its callbacks have finished, the players table
\* holds at most one row per (team, first name, last name) and no two rows
\* with the same id.
C34_OnePlayerRowPerName ==
  ScriptFinished =>
    \A a, b \in 1..Len(store.players) :
      a # b =>
        /\ store.players[a].id # store.players[b].id
        /\ ~(/\ store.players[a].team_id = store.players[b].team_id
             /\ store.players[a].first_name = store.players[b].first_name
             /\ store.players[a].last_name = store.players[b].last_name)

\* ------------------------------------------------------------------------
\* Properties of the request cache and the integration service
\* ------------------------------------------------------------------------
FailsNow(r) == api.requests[r].pc = "waiting" /\ api'.requests[r].failed
\* C35: when the HTTP request of a cachedRequest call fails while the cache
\* holds an entry for the key, expired or not, the call returns the data of
\* that entry and the cache stays as it is; the call throws only when the
\* cache holds no entry for the key.
C35_FailureFallsBackToCacheEntry ==
  [][\A r \in RequestIds :
       FailsNow(r) =>
         LET entry == api.cache[api.requests[r].key]
         IN IF entry = None
            THEN api'.cache = api.cache
            ELSE /\ api'.requests[r].pc = "returned"
                 /\ api'.requests[r].result = Some(entry[1].data)
                 /\ api'.cache = api.cache]_vars

\* C36: a call of fetchAndIntegrateCapitalsData(false) made no more than the
\* update interval after a successful call issues no upstream request;
\* requests are issued only when forceRefresh is true, no successful update
\* exists, or the last one is older than the update interval.
C36_NoRequestWithinUpdateInterval ==
  (api.integration.calls > 0 /\ ~api.integration.last.needsUpdate)
    => api.integration.last.requests = 0

\* C37: after a run of backfillHistoricalData in which every download of
\* some season failed (fetchSeasonData got no rows for it), needsBackfill()
\* still returns true.
SeasonWithoutDownload == \E k \in 1..script.n : script.tasks[k].outcome = "no rows"
C37_NeedsBackfillAfterFailedSeason ==
  (Resolved /\ SeasonWithoutDownload) => needsBackfill
====
